---- MODULE Spec2Model ----
(***************************************************************************)
(* A model of the vf_ec measurement scripts:                               *)
(*   - coverage_intersection.py: get_diff_mapping (the hunk mapper) and    *)
(*     main (the diff/coverage joiner, its summary and its two CSV views); *)
(*   - find_cov_energy_perf.py: get_coverage_run and measure_energy_smart; *)
(*   - the per-test coverage passes of the ffmpeg and openssl pipelines.   *)
(*                                                                         *)
(* Optional values (Python None, the "N/A" cell) are sequences of length   *)
(* at most one: <<>> is None / "N/A", <<n>> is the integer n.              *)
(***************************************************************************)
EXTENDS Integers, Sequences, FiniteSets, TLC

VARIABLES
    \* ---- coverage_intersection.get_diff_mapping
    diff,            \* lines of `git diff -U0` output (read so far / given)
    current_file,    \* path of the last `--- a/<path>` line, "" for None
    mapping,         \* the records appended so far
    skip_events,     \* what get_diff_mapping records about the lines it skips
    \* ---- coverage_intersection.main
    jpc,             \* position of main: "idle", "start", "join", "summary", "export", "done"
    diff_map,        \* result of get_diff_mapping
    v_cov, f_cov,    \* the two coverage indexes: file -> (line -> hits)
    item_idx,        \* number of diff_map items already joined
    all_rows,        \* joined rows
    totals,          \* [v_total, v_hit, f_total, f_hit]
    summary_stats,   \* per-pair summary records
    master_csv, clean_csv,  \* rows written to the two CSV files
    \* ---- the per-test coverage pass of one build
    pipeline,        \* "find_cov", "ffmpeg" or "openssl"
    cpc,             \* "idle", "build", "reset", "run", "read", "done"
    build,           \* how configure and make of the coverage build ended
    target_files,    \* files changed by the commit pair (ffmpeg)
    test_idx,        \* number of tests of the pass already handled
    gcda,            \* accumulator files present in the working tree
    exit_code,       \* exit code of the test invocation just made
    covered,         \* per handled test, the coverage result kept for it
    executed,        \* per invoked test, the translation units it executed
    \* ---- find_cov_energy_perf.measure_energy_smart
    epc,             \* "idle", "dry", "calibrate", "perf", "median", "done"
    dry_run,         \* how the dry run ended, one of Outcomes
    duration,        \* wall-clock time of the dry run, in microseconds
    loop_count,
    rep,             \* repetitions of `for _ in range(3)` finished
    perf_out,        \* perf_temp.txt: None when absent, else Some(rows)
    measurements,
    invocations,     \* per repetition: how perf ended, what it wrote, what was parsed
    timeline,        \* the "perf" invocations and "sleep" waits of the repetition loop, in order
    result,          \* the return value: None or Some(median record)
    \* ---- coverage_intersection.parse_lcov_info, as main calls it
    ppc,             \* "idle", "parse", "returned", "raised" (line 81),
                     \* "open_raised" (line 71)
    report,          \* the report file of the call: "none", "missing",
                     \* "unreadable" or "readable"
    parse_calls,     \* calls of parse_lcov_info made by main so far
    info,            \* lines of the .info file read so far by the current call
    current_sf,      \* "" for None
    coverage,        \* the index built so far: file -> (line -> hits)
    \* ---- measure_test of the openssl pipeline (three versions)
    variant,         \* "openssl_pipeline", "energy" or "common": the file of the version
    mpc,             \* "idle", "loop", "returned"
    iter_log,        \* per iteration started: perf's exit code, whether it wrote its
                     \* output file, whether the cool-down sleep followed
    perf_files,      \* iterations whose perf output file is on disk
    \* ---- ffmpeg_pipeline.run_phase_2_energy and measure_test, one commit
    fpc,             \* "idle", "build", "dry", "calibrate", "perf", "csv", "done"
    ff_build,        \* how configure and make of the perf build ended
    ff_test,         \* number of todo tests already handled
    ff_duration,     \* duration of the dry run, in microseconds
    iterations,      \* loop count of measure_test
    cache,           \* per handled test: None or Some(metrics)
    energy_csv,      \* rows written by write_energy_csv
    \* ---- openssl_pipeline.main and run_phase_1_coverage, the batch of pairs
    bpc,             \* "main", "checkout", "diff", "process", "check",
                     \* "measure", "done", "raised", "idle"
    pair_idx,        \* number of the pair main is at (0 before the first)
    which_commit,    \* "fix" or "vuln": the commit being processed
    commit_results,  \* what process_commit returned: None for False, or
                     \* Some(the tests: `failed`, and whether covered_files
                     \* holds a changed file)
    measured,        \* the tests of the commit handed to measure_test
    pair_log,        \* how run_phase_1_coverage ended for each finished pair
    \* ---- one call of a command helper that takes a timeout
    helper,          \* "run_cmd", "run_cmd_capture" or "run_cmd_stream"
    tpc,             \* "idle", "communicate", "read", "wait", "returned"
    clock,           \* time since the child was started, in ticks
    wait_start,      \* clock value at which p.wait(timeout) was called
    child,           \* "none", "running", "exited", "killed"
    stdout_open,     \* the child's end of the output pipe is open
    exit_status,     \* exit code of a child that exited
    cmd_result,      \* what the helper returned, as text; "" before
    spawn_count,     \* how many times the command was started
    \* ---- perf_sampling_curl.main, the energy phase
    spc,             \* "idle", "stat", "parse", "check", "written", "aborted",
                     \* "raised"
    perf_stat_exit_code, \* rc of run_cmd_capture(perf_stat_cmd)
    stat_out,        \* the lines of the perf stat output
    stat_idx,        \* lines handled by parse_perf_stat_energy
    energy_metrics,  \* the dictionary built by parse_perf_stat_energy
    energy_row,      \* the data row of the energy CSV, None if not written
    \* ---- checkpoints and re-runs (vuln_fix_testCompile, ffmpeg_pipeline)
    entry_point,     \* the program whose run is followed
    rpc,             \* position in it
    run_no,          \* how many times the pipeline was started
    input_pairs,     \* the (vuln_commit, fix_commit) rows of the input
    vuln_cov,        \* per test: the files it executes in the vuln build
    tasks,           \* phase 2: the tests named for the vuln and fix commit
    pair_no,         \* index of the pair being processed, 0 before the first
    checkpoints,     \* per vuln commit: the coverage checkpoint file
    ckpt_pair,       \* per vuln commit: the pair whose processing last wrote
                     \* the file (history), None if never written
    eng_checkpoint,  \* the energy checkpoint file of the pair: per commit the
                     \* tests stored with metrics
    cached_data,     \* the checkpoint as loaded by the current call
    loaded_from,     \* ckpt_pair of the file when it was loaded
    vuln_results,    \* test -> relevant files it covered in the vuln build
    p1_rows,         \* (test, target) rows of the phase-1 CSV with v_testname
    eng_cache,       \* `cache` of run_phase_2_energy
    commit_no,       \* index in `tasks` of the commit being measured
    todos,           \* tests of that commit still to measure
    test_no,         \* index in `suite` of the next vuln test
    exec_count       \* per (commit, test): how often the test was executed

hunkVars == <<diff, current_file, mapping, skip_events>>
joinVars == <<jpc, diff_map, v_cov, f_cov, item_idx, all_rows, totals,
              summary_stats, master_csv, clean_csv>>
covVars == <<pipeline, cpc, build, target_files, test_idx, gcda, exit_code, covered, executed>>
energyVars == <<epc, dry_run, duration, loop_count, rep, perf_out, measurements,
                invocations, timeline, result>>
\* the variables of the parts modelled further below
lcovVars == <<ppc, report, parse_calls, info, current_sf, coverage>>
iterVars == <<variant, mpc, iter_log, perf_files>>
ffVars == <<fpc, ff_build, ff_test, ff_duration, iterations, cache, energy_csv>>
batchVars == <<bpc, pair_idx, which_commit, commit_results, measured, pair_log>>
timeoutVars == <<helper, tpc, clock, wait_start, child, stdout_open, exit_status,
                 cmd_result, spawn_count>>
statVars == <<spc, perf_stat_exit_code, stat_out, stat_idx, energy_metrics, energy_row>>
resumeVars == <<entry_point, rpc, run_no, input_pairs, vuln_cov, tasks, pair_no,
                checkpoints, ckpt_pair, eng_checkpoint, cached_data,
                loaded_from, vuln_results, p1_rows, eng_cache, commit_no,
                todos, test_no, exec_count>>
laterVars == <<lcovVars, iterVars, ffVars, batchVars, timeoutVars, statVars,
               resumeVars>>
vars == <<hunkVars, joinVars, covVars, energyVars, laterVars>>

\* the parts of the program a specification does not run stay as constructed
CovIdle ==
    /\ pipeline = "find_cov"
    /\ cpc = "idle"
    /\ build = "none"
    /\ target_files = {}
    /\ test_idx = 0
    /\ gcda = {}
    /\ exit_code = 0
    /\ covered = <<>>
    /\ executed = <<>>

LcovIdle ==
    /\ ppc = "idle"
    /\ report = "none"
    /\ parse_calls = 0
    /\ info = <<>>
    /\ current_sf = ""
    /\ coverage = <<>>

IterIdle ==
    /\ variant = "common"
    /\ mpc = "idle"
    /\ iter_log = <<>>
    /\ perf_files = {}

FfIdle ==
    /\ fpc = "idle"
    /\ ff_build = "none"
    /\ ff_test = 0
    /\ ff_duration = 0
    /\ iterations = 0
    /\ cache = <<>>
    /\ energy_csv = <<>>

BatchIdle ==
    /\ bpc = "idle"
    /\ pair_idx = 0
    /\ which_commit = "fix"
    /\ commit_results = <<>>
    /\ measured = {}
    /\ pair_log = <<>>

TimeoutIdle ==
    /\ helper = "run_cmd"
    /\ tpc = "idle"
    /\ clock = 0
    /\ wait_start = 0
    /\ child = "none"
    /\ stdout_open = FALSE
    /\ exit_status = 0
    /\ cmd_result = ""
    /\ spawn_count = 0

StatIdle ==
    /\ spc = "idle"
    /\ perf_stat_exit_code = 0
    /\ stat_out = <<>>
    /\ stat_idx = 0
    /\ energy_metrics = <<>>
    /\ energy_row = <<>>

ResumeIdle ==
    /\ entry_point = "idle"
    /\ rpc = "idle"
    /\ run_no = 0
    /\ input_pairs = <<>>
    /\ vuln_cov = <<>>
    /\ tasks = <<>>
    /\ pair_no = 0
    /\ checkpoints = <<>>
    /\ ckpt_pair = <<>>
    /\ eng_checkpoint = <<>>
    /\ cached_data = <<>>
    /\ loaded_from = <<>>
    /\ vuln_results = <<>>
    /\ p1_rows = {}
    /\ eng_cache = <<>>
    /\ commit_no = 0
    /\ todos = {}
    /\ test_no = 0
    /\ exec_count = <<>>

LaterIdle ==
    LcovIdle /\ IterIdle /\ FfIdle /\ BatchIdle /\ TimeoutIdle /\ StatIdle
    /\ ResumeIdle

EnergyIdle ==
    /\ epc = "idle"
    /\ dry_run = "ok"
    /\ duration = 0
    /\ loop_count = 1
    /\ rep = 0
    /\ perf_out = <<>>
    /\ measurements = <<>>
    /\ invocations = <<>>
    /\ timeline = <<>>
    /\ result = <<>>

-----------------------------------------------------------------------------
(* Bounds of the model *)

\* largest hunk length field generated
MaxLen == 2
\* largest number of diff lines read by one get_diff_mapping run
MaxDiffLines == 3
\* largest number of well-formed hunk headers in one diff
MaxHunks == 1
\* largest line number that may carry a coverage entry
MaxCovLine == 2

Files == {"a.c", "b.c"}
None == <<>>
Some(n) == <<n>>

\* Python truthiness of an optional line number: None and 0 are false
Truthy(opt) == opt # None /\ opt[1] # 0

Max(a, b) == IF a >= b THEN a ELSE b

-----------------------------------------------------------------------------
(* Diff lines.  kind is                                                    *)
(*   "file"    `--- a/<path>`                                              *)
(*   "devnull" `--- /dev/null`  (old side of an added file)                *)
(*   "hunk"    `@@ -vs[,vl] +fs[,fl] @@`, vl and fl optional               *)
(*   "badhunk" a line starting with @@ that the regex does not match       *)
(*   "other"   any other line (`+++ b/..`, `diff --git`, content lines)    *)

DiffLine(k, p, vs, vl, fs, fl) ==
    [kind |-> k, path |-> p, vs |-> vs, vl |-> vl, fs |-> fs, fl |-> fl]

FileLine(p) == DiffLine("file", p, 0, None, 0, None)
DevNullLine == DiffLine("devnull", "", 0, None, 0, None)
BadHunkLine == DiffLine("badhunk", "", 0, None, 0, None)
OtherLine == DiffLine("other", "", 0, None, 0, None)
HunkLine(vs, vl, fs, fl) == DiffLine("hunk", "", vs, vl, fs, fl)

LenFields == {None} \cup {Some(n) : n \in 0..MaxLen}

\* git writes start 0 only together with length 0 (nothing on that side)
HunkLines ==
    {HunkLine(vs, vl, 2, fl) : vs \in {1}, vl \in LenFields, fl \in LenFields}
    \cup {HunkLine(0, Some(0), 2, fl) : fl \in LenFields}

NonHunkLines ==
    {FileLine(p) : p \in Files} \cup {DevNullLine, BadHunkLine, OtherLine}

NumHunks(lines) == Cardinality({i \in DOMAIN lines : lines[i].kind = "hunk"})

-----------------------------------------------------------------------------
(* coverage_intersection.get_diff_mapping *)

\* the slip of testing the converted integer instead of the matched string:
\* a written length of 0 would fall back to 1
LenOrDefault_ZeroIsOmitted(field) ==
    IF field = None \/ field[1] = 0 THEN 1 ELSE field[1]

\* int(match.group(n)) if match.group(n) else 1 : the group is a digit string
\* when present (never empty, so "0" is kept) and None when omitted
LenOrDefault(field) == IF field = None THEN 1 ELSE field[1]

RECURSIVE HunkRecords(_, _, _, _, _, _)
\* the records of `for i in range(max_range)` from offset i on
HunkRecords(file, v_start, v_len, f_start, f_len, i) ==
    IF i >= Max(v_len, f_len) THEN <<>>
    ELSE <<[file |-> file,
            v_lnum |-> IF i < v_len THEN Some(v_start + i) ELSE None,
            f_lnum |-> IF i < f_len THEN Some(f_start + i) ELSE None]>>
         \o HunkRecords(file, v_start, v_len, f_start, f_len, i + 1)

\* one iteration of `for line in result.stdout.splitlines()`
HunkStep(st, line) ==
    IF line.kind = "file"
    THEN [current_file |-> line.path, mapping |-> st.mapping]
    ELSE IF line.kind \in {"hunk", "badhunk"} /\ st.current_file # ""
    THEN IF line.kind = "hunk"
         THEN [current_file |-> st.current_file,
               mapping |-> st.mapping \o
                   HunkRecords(st.current_file, line.vs, LenOrDefault(line.vl),
                               line.fs, LenOrDefault(line.fl), 0)]
         ELSE st
    ELSE st

RECURSIVE FoldLines(_, _, _)
FoldLines(st, lines, i) ==
    IF i > Len(lines) THEN st ELSE FoldLines(HunkStep(st, lines[i]), lines, i + 1)

get_diff_mapping(lines) ==
    FoldLines([current_file |-> "", mapping |-> <<>>], lines, 1).mapping

\* get_diff_mapping reads the next line of the diff
ReadDiffLine ==
    /\ jpc = "idle"
    /\ Len(diff) < MaxDiffLines
    /\ \E line \in HunkLines \cup NonHunkLines :
          /\ line.kind = "hunk" => NumHunks(diff) < MaxHunks
          /\ diff' = Append(diff, line)
          /\ LET st == HunkStep([current_file |-> current_file, mapping |-> mapping], line)
             IN /\ current_file' = st.current_file
                /\ mapping' = st.mapping
    \* lines 51-53 have no else branch: nothing is logged, printed or counted
    \* for a line that hunk_regex does not match
    /\ UNCHANGED skip_events
    /\ UNCHANGED <<joinVars, covVars, energyVars, laterVars>>

HunkInit ==
    /\ diff = <<>>
    /\ current_file = ""
    /\ mapping = <<>>
    /\ skip_events = <<>>
    /\ jpc = "idle"
    /\ diff_map = <<>>
    /\ v_cov = <<>>
    /\ f_cov = <<>>
    /\ item_idx = 0
    /\ all_rows = <<>>
    /\ totals = [v_total |-> 0, v_hit |-> 0, f_total |-> 0, f_hit |-> 0]
    /\ summary_stats = <<>>
    /\ master_csv = <<>>
    /\ clean_csv = <<>>
    /\ CovIdle
    /\ EnergyIdle
    /\ LaterIdle

HunkNext == ReadDiffLine

SpecHunk == HunkInit /\ [][HunkNext]_vars

-----------------------------------------------------------------------------
(* Claims about get_diff_mapping *)

\* index of the last file-section marker (`--- a/..` or `--- /dev/null`), 0 if none
LastMarker(lines) ==
    LET ms == {i \in DOMAIN lines : lines[i].kind \in {"file", "devnull"}}
    IN IF ms = {} THEN 0 ELSE CHOOSE i \in ms : \A j \in ms : j <= i

UnderFileHeader(lines) ==
    LastMarker(lines) # 0 /\ lines[LastMarker(lines)].kind = "file"

\* what the hunk header h of file p stands for: max(vlen, flen) records, offset
\* by offset, an omitted length counting as 1
RecordsOfHunk(p, h) ==
    LET vlen == IF h.vl = None THEN 1 ELSE h.vl[1]
        flen == IF h.fl = None THEN 1 ELSE h.fl[1]
    IN [i \in 1..Max(vlen, flen) |->
           [file |-> p,
            v_lnum |-> IF i - 1 < vlen THEN Some(h.vs + i - 1) ELSE None,
            f_lnum |-> IF i - 1 < flen THEN Some(h.fs + i - 1) ELSE None]]

\* C1: reading a well-formed hunk header that stands under a `--- a/<path>`
\* header appends exactly max(vlen, flen) records to the mapping, the i-th with
\* vuln_line = vstart+i if i < vlen else None and fix_line = fstart+i if
\* i < flen else None, an omitted length being taken as 1.
C1_HunkRecords ==
    [][(/\ Len(diff') = Len(diff) + 1
        /\ diff'[Len(diff')].kind = "hunk"
        /\ UnderFileHeader(diff))
       => mapping' = mapping \o
              RecordsOfHunk(diff[LastMarker(diff)].path, diff'[Len(diff')])]_vars

\* a pure insertion (vlen = 0, flen = 2) under a file header has been mapped
C1_Witness ==
    /\ Len(diff) >= 2
    /\ diff[Len(diff)].kind = "hunk"
    /\ diff[Len(diff)].vl = Some(0)
    /\ diff[Len(diff)].fl = Some(2)
    /\ UnderFileHeader(SubSeq(diff, 1, Len(diff) - 1))
    /\ Len(mapping) = 2
    /\ \A i \in 1..2 : mapping[i].v_lnum = None

\* the lines read so far that start with @@ and are no hunk header
MalformedHunkLines == {i \in DOMAIN diff : diff[i].kind = "badhunk"}

IsWellFormedLine(line) == line.kind # "badhunk"

\* C19: a line starting with @@ that does not match the hunk-header syntax
\* produces no records and the lines after it are still processed (the mapping
\* is the one of the diff without such lines), and one parse-skip event is
\* recorded for each such line.
C19_MalformedHunkSkipRecorded ==
    /\ mapping = get_diff_mapping(SelectSeq(diff, IsWellFormedLine))
    /\ Len(skip_events) = Cardinality(MalformedHunkLines)

\* the hunk header being read stands in a section opened by `--- /dev/null`
UnderDevNull(lines) ==
    LastMarker(lines) # 0 /\ lines[LastMarker(lines)].kind = "devnull"

\* C28: every record carries the path of the section that contains its hunk:
\* reading a hunk header in a section whose old-side marker is `--- /dev/null`
\* appends no record that names the file of the previous section.
C28_NoRecordForPreviousSection ==
    [][(/\ Len(diff') = Len(diff) + 1
        /\ diff'[Len(diff')].kind = "hunk"
        /\ UnderDevNull(diff))
       => \A i \in (Len(mapping) + 1)..Len(mapping') :
              mapping'[i].file # current_file]_vars

-----------------------------------------------------------------------------
(* coverage_intersection.main: the join of one commit pair *)

\* dict.get(fname, {}) : the line table of a file, empty when the file is absent
FileTable(cov, fname) == IF fname \in DOMAIN cov THEN cov[fname] ELSE <<>>

\* the slip of calling a line executable only when it was hit
IsExecutable_OnlyWhenHit(cov, fname, lnum) ==
    IF Truthy(lnum)
    THEN /\ lnum[1] \in DOMAIN FileTable(cov, fname)
         /\ FileTable(cov, fname)[lnum[1]] > 0
    ELSE FALSE

\* is_v_executable / is_f_executable (lines 110-111)
IsExecutable(cov, fname, lnum) ==
    IF Truthy(lnum) THEN lnum[1] \in DOMAIN FileTable(cov, fname) ELSE FALSE

\* vh / fh (lines 113-114): .get(lnum, 0) for a line, "N/A" for no line
Hits(cov, fname, lnum) ==
    IF Truthy(lnum)
    THEN IF lnum[1] \in DOMAIN FileTable(cov, fname)
         THEN Some(FileTable(cov, fname)[lnum[1]])
         ELSE Some(0)
    ELSE None

\* lines 116-118 and 119-121: the running total and hit count of one side
CountLine(total, hit, lnum, h) ==
    IF Truthy(lnum)
    THEN [total |-> total + 1,
          hit |-> IF h # None /\ h[1] > 0 THEN hit + 1 ELSE hit]
    ELSE [total |-> total, hit |-> hit]

\* lines 123-133: the row of one item (commit_pair and the source snippets,
\* which depend on no coverage data, are left out)
JoinRow(item, vcov, fcov) ==
    [file |-> item.file,
     v_line_number |-> IF Truthy(item.v_lnum) THEN item.v_lnum ELSE None,
     vuln_hits |-> Hits(vcov, item.file, item.v_lnum),
     f_line_number |-> IF Truthy(item.f_lnum) THEN item.f_lnum ELSE None,
     fix_hits |-> Hits(fcov, item.file, item.f_lnum),
     is_executable |-> IsExecutable(vcov, item.file, item.v_lnum)
                       \/ IsExecutable(fcov, item.file, item.f_lnum)]

\* "{:.2f}%" of hit/total*100 as hundredths of a percent, "0%" when total = 0
CovPercent(hit, total) ==
    IF total > 0 THEN (2 * 10000 * hit + total) \div (2 * total) ELSE 0

\* line 147: a written row has every key but is_executable
CsvRow(r) ==
    [file |-> r.file, v_line_number |-> r.v_line_number, vuln_hits |-> r.vuln_hits,
     f_line_number |-> r.f_line_number, fix_hits |-> r.fix_hits]

RECURSIVE CsvRows(_, _, _)
\* rows_to_write of line 147 for the filter keepAll / is_executable
CsvRows(rows, keepAll, i) ==
    IF i > Len(rows) THEN <<>>
    ELSE (IF keepAll \/ rows[i].is_executable THEN <<CsvRow(rows[i])>> ELSE <<>>)
         \o CsvRows(rows, keepAll, i + 1)

\* lines 96-104: diff mapping of the pair, totals reset
MainGetDiffMapping ==
    /\ jpc = "start"
    /\ diff_map' = get_diff_mapping(diff)
    /\ totals' = [v_total |-> 0, v_hit |-> 0, f_total |-> 0, f_hit |-> 0]
    /\ item_idx' = 0
    /\ jpc' = "join"
    /\ UNCHANGED <<covVars, energyVars, hunkVars, laterVars, v_cov, f_cov, all_rows, summary_stats, master_csv, clean_csv>>

\* lines 106-133: one iteration of `for item in diff_map`
MainJoinItem ==
    /\ jpc = "join"
    /\ item_idx < Len(diff_map)
    /\ LET item == diff_map[item_idx + 1]
           row == JoinRow(item, v_cov, f_cov)
           v == CountLine(totals.v_total, totals.v_hit, item.v_lnum, row.vuln_hits)
           f == CountLine(totals.f_total, totals.f_hit, item.f_lnum, row.fix_hits)
       IN /\ totals' = [v_total |-> v.total, v_hit |-> v.hit,
                        f_total |-> f.total, f_hit |-> f.hit]
          /\ all_rows' = Append(all_rows, row)
    /\ item_idx' = item_idx + 1
    /\ UNCHANGED <<covVars, energyVars, hunkVars, laterVars, jpc, diff_map, v_cov, f_cov, summary_stats, master_csv, clean_csv>>

\* lines 135-140: the summary of the pair
MainSummary ==
    /\ jpc = "join"
    /\ item_idx = Len(diff_map)
    /\ summary_stats' = Append(summary_stats,
          [V_Lines |-> totals.v_total, V_Hits |-> totals.v_hit,
           V_Cov |-> CovPercent(totals.v_hit, totals.v_total),
           F_Lines |-> totals.f_total, F_Hits |-> totals.f_hit,
           F_Cov |-> CovPercent(totals.f_hit, totals.f_total)])
    /\ jpc' = "export"
    /\ UNCHANGED <<covVars, energyVars, hunkVars, laterVars, diff_map, v_cov, f_cov, item_idx, all_rows, totals,
                   master_csv, clean_csv>>

\* lines 146-152: the master and the clean CSV
MainExport ==
    /\ jpc = "export"
    /\ master_csv' = CsvRows(all_rows, TRUE, 1)
    /\ clean_csv' = CsvRows(all_rows, FALSE, 1)
    /\ jpc' = "done"
    /\ UNCHANGED <<covVars, energyVars, hunkVars, laterVars, diff_map, v_cov, f_cov, item_idx, all_rows, totals,
                   summary_stats>>

(* Inputs of the join: a diff of one or two file sections, and the two      *)
(* coverage indexes as parse_lcov_info returns them.                        *)

HitCounts == {0, 5}

\* every line table over a subset of 1..MaxCovLine
LineTables ==
    UNION {[ls -> HitCounts] : ls \in SUBSET (1..MaxCovLine)}

\* an index holding one file
IndexOf(fname, table) == [f \in {fname} |-> table]

VulnIndexes == {IndexOf(fname, t) : fname \in Files, t \in LineTables} \cup {<<>>}
FixIndexes == {IndexOf("a.c", t) : t \in LineTables} \cup {<<>>}

JoinDiffs ==
    {<<FileLine("a.c"), HunkLine(1, Some(vl), 1, Some(fl))>> :
        vl \in 0..MaxLen, fl \in 0..MaxLen}
    \cup {<<FileLine("b.c"), HunkLine(1, None, 2, None),
            FileLine("a.c"), HunkLine(2, Some(0), 2, None)>>}

JoinInit ==
    /\ diff \in JoinDiffs
    /\ current_file = ""
    /\ mapping = <<>>
    /\ skip_events = <<>>
    /\ jpc = "start"
    /\ diff_map = <<>>
    /\ v_cov \in VulnIndexes
    /\ f_cov \in FixIndexes
    /\ item_idx = 0
    /\ all_rows = <<>>
    /\ totals = [v_total |-> 0, v_hit |-> 0, f_total |-> 0, f_hit |-> 0]
    /\ summary_stats = <<>>
    /\ master_csv = <<>>
    /\ clean_csv = <<>>
    /\ CovIdle
    /\ EnergyIdle
    /\ LaterIdle

JoinNext == MainGetDiffMapping \/ MainJoinItem \/ MainSummary \/ MainExport

SpecJoin == JoinInit /\ [][JoinNext]_vars

-----------------------------------------------------------------------------
(* Claims about the join *)

\* the index holds a hit count for (fname, lnum)
HasEntry(cov, fname, lnum) ==
    /\ lnum # None
    /\ fname \in DOMAIN cov
    /\ lnum[1] \in DOMAIN cov[fname]

\* the hit count the claim asks for: the stored integer, or N/A without entry
HitsOrNA(cov, fname, lnum) ==
    IF HasEntry(cov, fname, lnum) THEN Some(cov[fname][lnum[1]]) ELSE None

\* C2: for every correspondence record a side's hit count is the integer its
\* index stores for (file, line) when there is such an entry and N/A
\* otherwise; a line without entry is never reported with 0 hits.
C2_HitsOrNA ==
    \A i \in 1..Len(all_rows) :
        /\ all_rows[i].vuln_hits = HitsOrNA(v_cov, diff_map[i].file, diff_map[i].v_lnum)
        /\ all_rows[i].fix_hits = HitsOrNA(f_cov, diff_map[i].file, diff_map[i].f_lnum)

\* records of the pair whose line on one side has a coverage entry, and those
\* among them with a positive hit count
ExecutableItems(cov, side) ==
    {i \in 1..Len(diff_map) : HasEntry(cov, diff_map[i].file, diff_map[i][side])}
HitItems(cov, side) ==
    {i \in ExecutableItems(cov, side) : cov[diff_map[i].file][diff_map[i][side][1]] > 0}

\* C3: the summary of a pair counts per side only the lines with a coverage
\* entry in its total and the lines with hits > 0 among them as hit lines.
C3_SummaryOverExecutable ==
    \A k \in 1..Len(summary_stats) :
        /\ summary_stats[k].V_Lines = Cardinality(ExecutableItems(v_cov, "v_lnum"))
        /\ summary_stats[k].V_Hits = Cardinality(HitItems(v_cov, "v_lnum"))
        /\ summary_stats[k].F_Lines = Cardinality(ExecutableItems(f_cov, "f_lnum"))
        /\ summary_stats[k].F_Hits = Cardinality(HitItems(f_cov, "f_lnum"))

\* the records with an entry on either side, and the k-th of them in order
ExecutableRecords ==
    ExecutableItems(v_cov, "v_lnum") \cup ExecutableItems(f_cov, "f_lnum")
NthOf(S, k) == CHOOSE i \in S : Cardinality({j \in S : j < i}) = k - 1

\* the CSV row r is the row of record i of the mapping
RowOfRecord(r, i) ==
    /\ r.file = diff_map[i].file
    /\ r.v_line_number = diff_map[i].v_lnum
    /\ r.f_line_number = diff_map[i].f_lnum

\* C4: a joined record is flagged executable iff the vuln index has an entry
\* for (file, vuln_line) or the fix index one for (file, fix_line); the master
\* view holds every record and the clean view exactly the executable ones.
C4_ExecutableFlag ==
    /\ \A i \in 1..Len(all_rows) :
          all_rows[i].is_executable <=> i \in ExecutableRecords
    /\ jpc = "done" =>
          /\ Len(master_csv) = Len(diff_map)
          /\ \A i \in 1..Len(master_csv) : RowOfRecord(master_csv[i], i)
          /\ Len(clean_csv) = Cardinality(ExecutableRecords)
          /\ \A k \in 1..Len(clean_csv) :
                RowOfRecord(clean_csv[k], NthOf(ExecutableRecords, k))

\* a finished join with an executable record and a record absent from both
\* indexes, which only the master view holds
C4_Witness ==
    /\ jpc = "done"
    /\ \E i, j \in 1..Len(all_rows) :
          /\ all_rows[i].is_executable
          /\ ~all_rows[j].is_executable
          /\ diff_map[j].v_lnum # None
          /\ diff_map[j].f_lnum # None
    /\ 0 < Len(clean_csv)
    /\ Len(clean_csv) < Len(master_csv)

-----------------------------------------------------------------------------
(* The per-test coverage pass over one coverage build:                     *)
(*   find_cov  find_cov_energy_perf.main / get_coverage_run                *)
(*   ffmpeg    ffmpeg_pipeline.run_phase_1_coverage, vuln commit           *)
(*   openssl   openssl_pipeline.process_commit                             *)
(*   curl_cov  curl_cov_tests.main                                         *)
(* A file is [dir, stem, ext]; the accumulator of translation unit         *)
(* dir/stem.c is dir/stem.gcda.                                            *)

\* number of tests in the suite of the pass
NumTests == 2

File(dir, stem, ext) == [dir |-> dir, stem |-> stem, ext |-> ext]

TranslationUnits ==
    {File("lib", "url", "c"), File("src", "url", "c"), File("lib", "md5", "c")}

\* the accumulator a run of unit u writes
GcdaOf(u) == File(u.dir, u.stem, "gcda")

\* file.replace(".gcda", ".c") under the directory the file was found in
SourceOfGcda(g) == File(g.dir, g.stem, "c")

\* get_covered_files: every accumulator in the tree, as its source file
get_covered_files(tree) == {SourceOfGcda(g) : g \in tree}

\* os.path.basename
Basename(f) == File(".", f.stem, f.ext)

\* lcov --capture over the tree, then parse_lcov_info: the basenames of the
\* SF: records, one per accumulator found
LcovTouched(tree) == {Basename(SourceOfGcda(g)) : g \in tree}

\* curl_cov_tests: get_fix_files keeps os.path.basename of each changed file
get_fix_files(changed) == {Basename(f) : f \in changed}

\* curl_cov_tests: get_touched_source_files, the basename of every
\* accumulator with .gcda replaced by .c
get_touched_source_files(tree) == {Basename(SourceOfGcda(g)) : g \in tree}

PipelinesWithReset == {"ffmpeg", "openssl", "curl_cov"}

\* the pipelines that go on to the tests only when configure and make returned
\* exit code 0 (find_cov main line 266, openssl process_commit lines 241-242);
\* ffmpeg run_phase_1_coverage lines 128-129 drops both results;
\* curl_cov_tests run_cmd exits the program when a build step fails
PipelinesCheckingBuild == {"find_cov", "openssl", "curl_cov"}

\* the pipelines whose test command must exit 0 for its coverage to be read
PipelinesSkippingFailedTests == {"openssl", "curl_cov"}

BuildOutcomes == {"ok", "configure_failed", "make_failed"}

\* the pipelines that keep, per test, only the covered files that are
\* changed files, and call the test relevant when one is kept
PipelinesSelecting == {"ffmpeg", "curl_cov"}

\* the position after the last test, or before the next one
AtTest(n) ==
    IF n >= NumTests THEN "done"
    ELSE IF pipeline \in PipelinesWithReset THEN "reset" ELSE "run"

\* configure and make of the coverage build
BuildProject ==
    /\ cpc = "build"
    /\ \E o \in BuildOutcomes :
          /\ build' = o
          /\ cpc' = IF o # "ok" /\ pipeline \in PipelinesCheckingBuild
                    THEN "done" ELSE AtTest(0)
    /\ UNCHANGED <<pipeline, target_files, test_idx, gcda, exit_code, covered, executed>>
    /\ UNCHANGED <<hunkVars, joinVars, energyVars, laterVars>>

\* `find . -name '*.gcda' -delete`
DeleteGcda ==
    /\ cpc = "reset"
    /\ gcda' = {}
    /\ cpc' = "run"
    /\ UNCHANGED <<pipeline, build, target_files, test_idx, exit_code, covered, executed>>
    /\ UNCHANGED <<hunkVars, joinVars, energyVars, laterVars>>

\* the test invocation: the units it executes add to (or create) their accumulators
RunTest ==
    /\ cpc = "run"
    /\ \E units \in SUBSET TranslationUnits, code \in {0, 1} :
          /\ gcda' = gcda \cup {GcdaOf(u) : u \in units}
          /\ executed' = Append(executed, units)
          /\ exit_code' = code
    /\ cpc' = "read"
    /\ UNCHANGED <<pipeline, build, target_files, test_idx, covered>>
    /\ UNCHANGED <<hunkVars, joinVars, energyVars, laterVars>>

\* the position after a test has been handled
AfterTest(n) == AtTest(n)

\* openssl process_commit lines 271-282: a failing test command is recorded
\* as failed and its accumulators are not read; curl_cov_tests main lines
\* 97-99 goes on with the next test
SkipFailedTest ==
    /\ cpc = "read"
    /\ pipeline \in PipelinesSkippingFailedTests
    /\ exit_code # 0
    /\ covered' = Append(covered, [files |-> {}, failed |-> TRUE])
    /\ test_idx' = test_idx + 1
    /\ cpc' = AfterTest(test_idx + 1)
    /\ UNCHANGED <<pipeline, build, target_files, gcda, exit_code, executed>>
    /\ UNCHANGED <<hunkVars, joinVars, energyVars, laterVars>>

\* what each pipeline keeps for the test from the accumulators in the tree
CoverageKept(tree) ==
    IF pipeline = "find_cov" THEN LcovTouched(tree)
    ELSE IF pipeline = "ffmpeg" THEN get_covered_files(tree) \cap target_files
    ELSE IF pipeline = "curl_cov"
         THEN get_fix_files(target_files) \cap get_touched_source_files(tree)
    ELSE get_covered_files(tree)

\* reading the coverage of the test just run
ReadCoverage ==
    /\ cpc = "read"
    /\ pipeline \in PipelinesSkippingFailedTests => exit_code = 0
    /\ covered' = Append(covered, [files |-> CoverageKept(gcda), failed |-> FALSE])
    /\ test_idx' = test_idx + 1
    /\ cpc' = AfterTest(test_idx + 1)
    /\ UNCHANGED <<pipeline, build, target_files, gcda, exit_code, executed>>
    /\ UNCHANGED <<hunkVars, joinVars, energyVars, laterVars>>

HunkIdle ==
    /\ diff = <<>>
    /\ current_file = ""
    /\ mapping = <<>>
    /\ skip_events = <<>>

JoinIdle ==
    /\ jpc = "idle"
    /\ diff_map = <<>>
    /\ v_cov = <<>>
    /\ f_cov = <<>>
    /\ item_idx = 0
    /\ all_rows = <<>>
    /\ totals = [v_total |-> 0, v_hit |-> 0, f_total |-> 0, f_hit |-> 0]
    /\ summary_stats = <<>>
    /\ master_csv = <<>>
    /\ clean_csv = <<>>

\* after checkout (git clean -fdx), before the coverage build: no accumulator yet
CovInit ==
    /\ pipeline \in {"find_cov", "ffmpeg", "openssl", "curl_cov"}
    /\ cpc = "build"
    /\ build = "none"
    /\ target_files \in (SUBSET TranslationUnits) \ {{}}
    /\ pipeline \notin PipelinesSelecting => target_files = TranslationUnits
    /\ test_idx = 0
    /\ gcda = {}
    /\ exit_code = 0
    /\ covered = <<>>
    /\ executed = <<>>
    /\ HunkIdle
    /\ JoinIdle
    /\ EnergyIdle
    /\ LaterIdle

CovNext == BuildProject \/ DeleteGcda \/ RunTest \/ SkipFailedTest \/ ReadCoverage

SpecCov == CovInit /\ [][CovNext]_vars

\* C5: in every per-test coverage pass the accumulators are deleted right
\* before each test invocation and read right after it: when a test has just
\* run the tree holds only the accumulators that test wrote, and the coverage
\* kept for a test names only files that test executed.
C5_ResetBeforeReadAfter ==
    /\ cpc = "read" =>
          gcda = {GcdaOf(u) : u \in executed[Len(executed)]}
    /\ \A t \in 1..Len(covered) :
          \A f \in covered[t].files :
             \E u \in executed[t] :
                /\ f.stem = u.stem
                /\ pipeline \notin {"find_cov", "curl_cov"} => f.dir = u.dir

\* C12: after the configure or build step of a commit exits non-zero no later
\* phase is run for that commit: no test is executed and no coverage collected.
C12_NoPhaseAfterFailedBuild ==
    build \in {"configure_failed", "make_failed"} =>
        (executed = <<>> /\ covered = <<>>)

\* C17: when the test just invoked exited non-zero, the step that handles it
\* still extracts its coverage: the covered-file list kept for the test is the
\* one read from the accumulators present after the run.
C17_FailedTestStillExtracted ==
    [][(/\ cpc = "read"
        /\ exit_code # 0
        /\ Len(covered') = Len(covered) + 1)
       => covered'[Len(covered')].files = CoverageKept(gcda)]_vars

\* C23: a test is selected as relevant only when a file it covered and a
\* changed file have the same full relative path; files of the same
\* basename in different directories do not make a test relevant.
C23_RelevantOnlyByFullPath ==
    pipeline \in PipelinesSelecting =>
        \A t \in 1..Len(covered) :
            covered[t].files # {} => executed[t] \cap target_files # {}

-----------------------------------------------------------------------------
(* find_cov_energy_perf.measure_energy_smart.                              *)
(* Durations are integers of microseconds.  A Python float that results    *)
(* from a true division is kept as a fraction [num, den] with den > 0.     *)

\* MIN_DURATION_SEC = 0.1, in microseconds
MIN_DURATION_USEC == 100000
\* the 0.5 of `int(0.5 / safe_dur)`, in microseconds
TARGET_USEC == 500000
\* the 0.000001 of `max(duration, 0.000001)`, in microseconds
SAFE_DUR_USEC == 1
\* the 2000 of `min(loop_count, 2000)`
LOOP_CAP == 2000
\* the 3 of `for _ in range(3)`
REPETITIONS == 3
\* task-clock is reported in milliseconds: `val / 1000.0`
MSEC_PER_SEC == 1000

Min(a, b) == IF a <= b THEN a ELSE b

RECURSIVE Gcd(_, _)
Gcd(a, b) == IF b = 0 THEN a ELSE Gcd(b, a % b)

\* the fraction n/d in lowest terms (n >= 0, d > 0)
Frac(n, d) == [num |-> n \div Gcd(n, d), den |-> d \div Gcd(n, d)]
FracEq(a, b) == a.num * b.den = b.num * a.den
FracLe(a, b) == a.num * b.den <= b.num * a.den
FracDiv(a, n) == Frac(a.num, a.den * n)
FracMean2(a, b) == Frac(a.num * b.den + b.num * a.den, 2 * a.den * b.den)

\* how run_cmd's subprocess can end: exit code 0, another exit code,
\* TimeoutExpired, or another exception (the command was not started)
Outcomes == {"ok", "nonzero", "timeout", "error"}

\* run_cmd(cmd, cwd, ignore_errors, timeout): True unless the exit code is
\* non-zero and errors are not ignored, or an exception was raised
run_cmd(outcome, ignore_errors) ==
    IF outcome \in {"timeout", "error"} THEN FALSE
    ELSE IF outcome = "nonzero" /\ ~ignore_errors THEN FALSE
    ELSE TRUE

\* the loop count written in the spec: ceil(0.5 / d) under a floor of 0.5 s
LoopCount_CeilOfHalfSecond(d) ==
    IF d >= TARGET_USEC THEN 1
    ELSE Min(Max((TARGET_USEC + Max(d, SAFE_DUR_USEC) - 1) \div Max(d, SAFE_DUR_USEC), 1),
             LOOP_CAP)

\* lines 179-186
LoopCount(d) ==
    IF d < MIN_DURATION_USEC
    THEN Min(TARGET_USEC \div Max(d, SAFE_DUR_USEC), LOOP_CAP)
    ELSE 1

(* A row of `perf stat -x,` output: p[0] is a number (val = Some(n)) or a   *)
(* marker such as <not counted> or <not supported> (val = None), p[2] is   *)
(* the event name.                                                         *)
Row(val, event) == [val |-> val, event |-> event]

\* `"power/energy-pkg" in p[2]`, `"cycles" in p[2]`, ... : the first substring
\* test of lines 210-213 that the event name passes
EventKey(event) ==
    CASE event = "power/energy-pkg/" -> "energy"
      [] event \in {"cycles", "cpu_core/cycles/", "cpu_atom/cycles/"} -> "cycles"
      [] event \in {"instructions", "cpu_core/instructions/", "cpu_atom/instructions/"}
            -> "instructions"
      [] event = "task-clock" -> "time"
      [] OTHER -> "none"

\* m = {"energy": 0.0, "cycles": 0, "instructions": 0, "time": 0.0}
EmptyMetrics ==
    [energy |-> Frac(0, 1), cycles |-> 0, instructions |-> 0, time |-> Frac(0, 1)]

\* lines 206-214: a row whose first field is no number changes nothing (it is
\* skipped, or float() raises and the except passes); a number is stored
\* under the key of its event
ParseRow(m, row) ==
    IF row.val = None THEN m
    ELSE CASE EventKey(row.event) = "energy" -> [m EXCEPT !.energy = Frac(row.val[1], 1)]
           [] EventKey(row.event) = "cycles" -> [m EXCEPT !.cycles = row.val[1]]
           [] EventKey(row.event) = "instructions" -> [m EXCEPT !.instructions = row.val[1]]
           [] EventKey(row.event) = "time" -> [m EXCEPT !.time = Frac(row.val[1], MSEC_PER_SEC)]
           [] OTHER -> m

RECURSIVE ParseRows(_, _, _)
\* lines 203-214: the loop over the lines of perf_temp.txt
ParseRows(m, rows, i) ==
    IF i > Len(rows) THEN m ELSE ParseRows(ParseRow(m, rows[i]), rows, i + 1)

ParsePerf(rows) == ParseRows(EmptyMetrics, rows, 1)

\* the slip of leaving the elapsed time undivided
Normalize_TimeNotDivided(m, n) ==
    IF n > 1
    THEN [energy |-> FracDiv(m.energy, n), cycles |-> m.cycles \div n,
          instructions |-> m.instructions \div n, time |-> m.time]
    ELSE m

\* lines 217-221: the per-run values
Normalize(m, n) ==
    IF n > 1
    THEN [energy |-> FracDiv(m.energy, n), cycles |-> m.cycles \div n,
          instructions |-> m.instructions \div n, time |-> FracDiv(m.time, n)]
    ELSE m

\* line 223
Ipc(m) == IF m.cycles > 0 THEN Frac(m.instructions, m.cycles) ELSE Frac(0, 1)

\* lines 216-224: the sample appended for one parsed file
Sample(raw, n) ==
    LET m == Normalize(raw, n)
    IN [energy |-> m.energy, cycles |-> m.cycles, instructions |-> m.instructions,
        time |-> m.time, ipc |-> Ipc(m)]

\* statistics.median of one to three values
Median(xs) ==
    IF Len(xs) = 1 THEN xs[1]
    ELSE IF Len(xs) = 2 THEN FracMean2(xs[1], xs[2])
    ELSE xs[CHOOSE i \in 1..3 :
                /\ Cardinality({j \in 1..3 : j # i /\ FracLe(xs[j], xs[i])}) >= 1
                /\ Cardinality({j \in 1..3 : j # i /\ FracLe(xs[i], xs[j])}) >= 1
                /\ \/ \A j \in 1..3 : FracEq(xs[j], xs[i])
                   \/ \E j, k \in 1..3 : j # i /\ k # i /\ j # k
                         /\ FracLe(xs[j], xs[i]) /\ FracLe(xs[i], xs[k])]

\* lines 229-232
MedianRecord(ms) ==
    [energy |-> Median([i \in 1..Len(ms) |-> ms[i].energy]),
     cycles |-> Median([i \in 1..Len(ms) |-> Frac(ms[i].cycles, 1)]),
     instructions |-> Median([i \in 1..Len(ms) |-> Frac(ms[i].instructions, 1)]),
     time |-> Median([i \in 1..Len(ms) |-> ms[i].time]),
     ipc |-> Median([i \in 1..Len(ms) |-> ms[i].ipc])]

(* Inputs *)

\* dry-run durations: 0, 0.002 s, 0.03 s, 0.1 s, 0.2 s, 0.6 s
Durations == {0, 2000, 30000, 100000, 200000, 600000}

\* what a perf run can write
PerfOutputs ==
    { \* one row per event
      <<Row(Some(40), "power/energy-pkg/"), Row(Some(900), "cycles"),
        Row(Some(1800), "instructions"), Row(Some(3000), "task-clock")>>,
      \* a hybrid host: one row per core cluster
      <<Row(Some(40), "power/energy-pkg/"), Row(Some(700), "cpu_core/cycles/"),
        Row(Some(50), "cpu_atom/cycles/"), Row(Some(1500), "cpu_core/instructions/"),
        Row(None, "cpu_atom/instructions/")>>,
      \* a counted and a not counted row of the same event, energy unsupported
      <<Row(None, "power/energy-pkg/"), Row(Some(100), "cpu_core/cycles/"),
        Row(None, "cpu_atom/cycles/")>> }

\* what an invocation does to perf_temp.txt: perf writes its rows, perf opens
\* the file and ends before writing a row (Some(<<>>)), or the file is left
\* as it was because perf did not get to open it (None)
FileEffects(o) ==
    IF o = "ok" THEN {Some(out) : out \in PerfOutputs}
    ELSE IF o = "nonzero" THEN {Some(out) : out \in PerfOutputs} \cup {Some(<<>>), None}
    ELSE IF o = "timeout" THEN {Some(<<>>), None}
    ELSE {None}

\* step 2, lines 174-176: the dry run; its result is not looked at
DryRun ==
    /\ epc = "dry"
    /\ \E o \in Outcomes, d \in Durations :
          /\ dry_run' = o
          /\ duration' = d
    /\ epc' = "calibrate"
    /\ UNCHANGED <<loop_count, rep, perf_out, measurements, invocations, timeline, result>>
    /\ UNCHANGED <<hunkVars, joinVars, covVars, laterVars>>

\* step 3, lines 179-187
DetermineLoopCount ==
    /\ epc = "calibrate"
    /\ loop_count' = LoopCount(duration)
    /\ epc' = "perf"
    /\ UNCHANGED <<dry_run, duration, rep, perf_out, measurements, invocations, timeline, result>>
    /\ UNCHANGED <<hunkVars, joinVars, covVars, laterVars>>

\* step 5, lines 199-224: one repetition
PerfRepetition ==
    /\ epc = "perf"
    /\ rep < REPETITIONS
    /\ \E o \in Outcomes :
       \E effect \in FileEffects(o) :
          /\ LET file == IF effect # None THEN effect ELSE perf_out
                 parse == run_cmd(o, TRUE) /\ file # None
                 raw == IF parse THEN ParsePerf(file[1]) ELSE EmptyMetrics
             IN /\ perf_out' = file
                /\ measurements' = IF parse THEN Append(measurements, Sample(raw, loop_count))
                                   ELSE measurements
                /\ invocations' = Append(invocations,
                      [outcome |-> o, wrote |-> effect, sample |-> parse,
                       parsed |-> IF parse THEN file[1] ELSE <<>>, raw |-> raw])
    \* the loop body holds no wait: the next invocation follows at once
    /\ timeline' = Append(timeline, "perf")
    /\ rep' = rep + 1
    /\ epc' = IF rep + 1 = REPETITIONS THEN "median" ELSE "perf"
    /\ UNCHANGED <<dry_run, duration, loop_count, result>>
    /\ UNCHANGED <<hunkVars, joinVars, covVars, laterVars>>

\* lines 226-232
ReturnMedian ==
    /\ epc = "median"
    /\ result' = IF measurements = <<>> THEN None ELSE Some(MedianRecord(measurements))
    /\ epc' = "done"
    /\ UNCHANGED <<dry_run, duration, loop_count, rep, perf_out, measurements, invocations, timeline>>
    /\ UNCHANGED <<hunkVars, joinVars, covVars, laterVars>>

\* perf_temp.txt of the repository may be left from an earlier test
EnergyInit ==
    /\ epc = "dry"
    /\ dry_run = "ok"
    /\ duration = 0
    /\ loop_count = 1
    /\ rep = 0
    /\ perf_out \in {None, Some(<<Row(Some(7), "power/energy-pkg/"), Row(Some(11), "cycles")>>)}
    /\ measurements = <<>>
    /\ invocations = <<>>
    /\ timeline = <<>>
    /\ result = None
    /\ HunkIdle
    /\ JoinIdle
    /\ CovIdle
    /\ LaterIdle

EnergyNext == DryRun \/ DetermineLoopCount \/ PerfRepetition \/ ReturnMedian

SpecEnergy == EnergyInit /\ [][EnergyNext]_vars

-----------------------------------------------------------------------------
(* Claims about measure_energy_smart *)

Calibrated == epc \in {"perf", "median", "done"}

\* C6 as written: loop_count = 1 when d >= 0.5 s, otherwise
\* min(max(ceil(0.5 / d), 1), 2000) (a duration of zero taking the cap).
C6_LoopCountCeilOfHalfSecond ==
    Calibrated => loop_count = LoopCount_CeilOfHalfSecond(duration)

\* C6 (amended): loop_count = 1 when d >= 0.1 s; otherwise it is
\* floor(0.5 / max(d, 0.000001)) capped at 2000, that is the largest count of
\* at most 2000 whose runs of max(d, 0.000001) fit into 0.5 s; d = 0.002 s
\* gives 250 and d = 0.6 s gives 1.
C6_LoopCountFloorUnderTenth ==
    Calibrated =>
        LET d == IF duration > 1 THEN duration ELSE 1
        IN /\ duration >= 100000 => loop_count = 1
           /\ duration < 100000 =>
                 /\ loop_count >= 1
                 /\ loop_count <= 2000
                 /\ loop_count * d <= 500000
                 /\ loop_count = 2000 \/ (loop_count + 1) * d > 500000
           /\ duration = 2000 => loop_count = 250
           /\ duration = 600000 => loop_count = 1

\* a dry run of 0.03 s has been calibrated to 16 loops (0.5 / 0.03 = 16.67)
C6_Witness ==
    /\ Calibrated
    /\ duration = 30000
    /\ loop_count = 16

\* C7: after a failed dry run (non-zero exit, timeout or execution error) no
\* perf measurement is attempted for the test and no energy record is
\* produced for it.
C7_NoMeasurementAfterFailedDryRun ==
    (epc # "dry" /\ dry_run # "ok") => (invocations = <<>> /\ result = None)

RECURSIVE SumCounted(_, _, _)
\* the sum of the counted values of the rows of one logical event
SumCounted(rows, key, i) ==
    IF i > Len(rows) THEN 0
    ELSE (IF rows[i].val # None /\ EventKey(rows[i].event) = key THEN rows[i].val[1] ELSE 0)
         + SumCounted(rows, key, i + 1)

\* C8: when the counter output holds several rows of the same logical event,
\* the parsed value of the event is the sum of its counted rows; rows marked
\* not counted / not supported add nothing.
C8_SameEventSummed ==
    \A k \in 1..Len(invocations) :
        invocations[k].sample =>
            /\ invocations[k].raw.cycles = SumCounted(invocations[k].parsed, "cycles", 1)
            /\ invocations[k].raw.instructions =
                   SumCounted(invocations[k].parsed, "instructions", 1)
            /\ FracEq(invocations[k].raw.energy,
                      Frac(SumCounted(invocations[k].parsed, "energy", 1), 1))

\* C9: a repetition whose perf invocation failed (non-zero exit, timeout or
\* error) adds no sample: the measurements hold at most one sample per repetition
\* and only from repetitions whose invocation succeeded.
C9_FailedInvocationNoSample ==
    /\ \A k \in 1..Len(invocations) :
          invocations[k].sample => invocations[k].outcome = "ok"
    /\ Len(measurements) =
          Cardinality({k \in 1..Len(invocations) : invocations[k].sample})

\* C27: each sample is parsed from counter output written by the perf
\* invocation of that same repetition, never from content that an earlier
\* repetition, test or commit left in perf_temp.txt.
C27_SampleFromOwnInvocation ==
    \A k \in 1..Len(invocations) :
        invocations[k].sample =>
            /\ invocations[k].wrote # None
            /\ invocations[k].parsed = invocations[k].wrote[1]

\* the repetition that appended the i-th sample
RepetitionOfSample(i) ==
    CHOOSE k \in 1..Len(invocations) :
        /\ invocations[k].sample
        /\ Cardinality({j \in 1..k : invocations[j].sample}) = i

\* IPC of a sample is instructions / cycles of that sample, 0 when cycles = 0
IpcOfNormalized(m) ==
    IF m.cycles = 0 THEN m.ipc.num = 0
    ELSE m.ipc.num * m.cycles = m.instructions * m.ipc.den

TruncatedQuotient(q, n, d) == q * d <= n /\ n < (q + 1) * d

HasCountedRow(rows, key) ==
    \E j \in 1..Len(rows) : rows[j].val # None /\ EventKey(rows[j].event) = key

MetricKeys == {"energy", "cycles", "instructions", "time"}

\* the record reports a value for the metric (the metric is not absent)
ReportsValue(m, key) == key \in DOMAIN m /\ m[key] # None

\* C13: a metric for which the invocation produced no counted row (only not
\* counted / not supported rows, or no row) is absent from the sample and from
\* the record returned for the test, never reported with a number such as 0.
C13_UncountedMetricAbsent ==
    /\ \A i \in 1..Len(measurements) :
          \A key \in MetricKeys :
             ReportsValue(measurements[i], key) =>
                HasCountedRow(invocations[RepetitionOfSample(i)].parsed, key)
    /\ result # None =>
          \A key \in MetricKeys :
             ReportsValue(result[1], key) =>
                \E k \in 1..Len(invocations) :
                   invocations[k].sample /\ HasCountedRow(invocations[k].parsed, key)

\* the mean of one to three samples
FracSum(a, b) == Frac(a.num * b.den + b.num * a.den, a.den * b.den)
Mean(xs) ==
    LET sum == IF Len(xs) = 1 THEN xs[1]
               ELSE IF Len(xs) = 2 THEN FracSum(xs[1], xs[2])
               ELSE FracSum(FracSum(xs[1], xs[2]), xs[3])
    IN Frac(sum.num, sum.den * Len(xs))

\* the samples of one metric, as fractions
SamplesOf(key) ==
    [i \in 1..Len(measurements) |->
        IF key \in {"cycles", "instructions"} THEN Frac(measurements[i][key], 1)
        ELSE measurements[i][key]]

\* the aggregate the claim describes for one metric
AggregatedMetric(xs) ==
    [mean |-> Mean(xs), median |-> Median(xs), sample_count |-> Len(xs)]

\* C14: the record returned for a test holds, for every metric, mean, median
\* and sample_count over the successful samples ([10, 12, 14] giving 12, 12
\* and 3); with zero successful repetitions it is the no-data marker, which
\* differs from a measured 0.
C14_MeanMedianSampleCount ==
    epc = "done" =>
        IF measurements = <<>> THEN result = None
        ELSE /\ result # None
             /\ \A key \in MetricKeys \cup {"ipc"} :
                   result[1][key] = AggregatedMetric(SamplesOf(key))

\* C16: between any two consecutive sampling repetitions of a test a
\* cool-down wait takes place: no perf invocation directly follows another.
C16_CoolDownBetweenRepetitions ==
    \A i \in 1..(Len(timeline) - 1) :
        ~(timeline[i] = "perf" /\ timeline[i + 1] = "perf")

-----------------------------------------------------------------------------
(* coverage_intersection.parse_lcov_info, called by main twice per commit  *)
(* pair (vuln-coverage.info, fixed-coverage.info).  A line of the report   *)
(* is                                                                      *)
(*   "SF"     `SF:<path>`                                                  *)
(*   "DA"     `DA:<field>[,<field>...]`, parts = line[3:].split(',')       *)
(*   "other"  any other line (`TN:`, `LF:`, `end_of_record`, ...)          *)
(* A field of a DA line is Some(n) when it is the decimal text of n and    *)
(* None when int() does not accept it.                                     *)

\* largest number of lines read from one report
MaxInfoLines == 3
\* number of commit pairs in COMMIT_PAIRS
NumPairs == 2

LcovLine(k, p, parts) == [kind |-> k, path |-> p, parts |-> parts]
SfLine(p) == LcovLine("SF", p, <<>>)
DaLine(parts) == LcovLine("DA", "", parts)
OtherLcovLine == LcovLine("other", "", <<>>)

\* the SF paths of a report: two files of the project, by absolute path
SfPaths == {"/curl/a.c", "/curl/b.c"}

\* line 77: os.path.relpath(full_path, PROJECT_PATH) if PROJECT_PATH in
\* full_path else full_path
SfKey(full_path) ==
    CASE full_path = "/curl/a.c" -> "a.c"
      [] full_path = "/curl/b.c" -> "b.c"
      [] OTHER -> full_path

\* well-formed DA lines, and DA lines with a missing hit field, a
\* non-numeric line number, a non-numeric hit count
WellFormedDaLines ==
    {DaLine(<<Some(l), Some(h)>>) : l \in 1..MaxCovLine, h \in {0, 5}}
MalformedDaLines ==
    {DaLine(<<Some(1)>>), DaLine(<<None, Some(5)>>), DaLine(<<Some(1), None>>)}

LcovLines ==
    {SfLine(p) : p \in SfPaths} \cup WellFormedDaLines \cup MalformedDaLines
    \cup {OtherLcovLine}

\* int(parts[1]) and int(parts[0]) of line 81 both return: there is a second
\* field (no IndexError) and both fields are numbers (no ValueError)
DaConverts(parts) ==
    /\ Len(parts) >= 2
    /\ parts[1] # None
    /\ parts[2] # None

\* one iteration of `for line in f` (lines 73-81); raised is set when the
\* iteration ends by an exception
ParseLcovStep(st, line) ==
    IF line.kind = "SF"
    THEN [current_sf |-> SfKey(line.path),
          coverage |-> (SfKey(line.path) :> <<>>) @@ st.coverage,
          raised |-> FALSE]
    ELSE IF line.kind = "DA" /\ st.current_sf # ""
    THEN IF DaConverts(line.parts)
         THEN [current_sf |-> st.current_sf,
               coverage |-> [st.coverage EXCEPT ![st.current_sf] =
                                (line.parts[1][1] :> line.parts[2][1]) @@ @],
               raised |-> FALSE]
         ELSE [current_sf |-> st.current_sf, coverage |-> st.coverage, raised |-> TRUE]
    ELSE [current_sf |-> st.current_sf, coverage |-> st.coverage, raised |-> FALSE]

\* what `file_path` can be: no such file, a file that exists and that open()
\* refuses (no read permission, a directory), a file that is opened
ReportFiles == {"missing", "unreadable", "readable"}

\* main calls parse_lcov_info (lines 97-98): the report is missing (line 69,
\* the empty index is returned), or open() raises (line 71, no handler in
\* parse_lcov_info or main), or it is opened
CallParseLcovInfo ==
    /\ ppc \in {"idle", "returned"}
    /\ parse_calls < 2 * NumPairs
    /\ parse_calls' = parse_calls + 1
    /\ info' = <<>>
    /\ current_sf' = ""
    /\ coverage' = <<>>
    /\ \E file \in ReportFiles :
          /\ report' = file
          /\ ppc' = CASE file = "missing" -> "returned"
                      [] file = "unreadable" -> "open_raised"
                      [] OTHER -> "parse"
    /\ UNCHANGED <<hunkVars, joinVars, covVars, energyVars, iterVars, ffVars, batchVars, timeoutVars, statVars,
                   resumeVars>>

\* the next line of the report is read and handled; an exception of line 81 is
\* caught neither in parse_lcov_info nor in main
ReadInfoLine ==
    /\ ppc = "parse"
    /\ Len(info) < MaxInfoLines
    /\ \E line \in LcovLines :
          LET st == ParseLcovStep([current_sf |-> current_sf, coverage |-> coverage,
                                   raised |-> FALSE], line)
          IN /\ info' = Append(info, line)
             /\ current_sf' = st.current_sf
             /\ coverage' = st.coverage
             /\ ppc' = IF st.raised THEN "raised" ELSE "parse"
    /\ UNCHANGED <<parse_calls, report>>
    /\ UNCHANGED <<hunkVars, joinVars, covVars, energyVars, iterVars, ffVars, batchVars, timeoutVars, statVars,
                   resumeVars>>

\* the end of the report: line 82 returns the index
EndOfInfo ==
    /\ ppc = "parse"
    /\ ppc' = "returned"
    /\ UNCHANGED <<parse_calls, report, info, current_sf, coverage>>
    /\ UNCHANGED <<hunkVars, joinVars, covVars, energyVars, iterVars, ffVars, batchVars, timeoutVars, statVars,
                   resumeVars>>

LcovInit ==
    /\ LcovIdle
    /\ IterIdle
    /\ FfIdle
    /\ BatchIdle
    /\ TimeoutIdle
    /\ StatIdle
    /\ ResumeIdle
    /\ HunkIdle
    /\ JoinIdle
    /\ CovIdle
    /\ EnergyIdle

LcovNext == CallParseLcovInfo \/ ReadInfoLine \/ EndOfInfo

SpecLcov == LcovInit /\ [][LcovNext]_vars

RECURSIVE FoldInfo(_, _, _)
\* the index of a report whose lines all convert
FoldInfo(st, lines, i) ==
    IF i > Len(lines) THEN st ELSE FoldInfo(ParseLcovStep(st, lines[i]), lines, i + 1)

\* a DA line that line 81 cannot convert
IsMalformedDa(line) == line.kind = "DA" /\ ~DaConverts(line.parts)
IsNotMalformedDa(line) == ~IsMalformedDa(line)

\* C20: a malformed line-hit record (missing hit field, non-numeric line or
\* hit count) is skipped and parsing goes on with the rest of the report: the
\* parse never ends by an exception, so that the remaining reports and commit
\* pairs of main are still handled, and the index built is the one of the
\* report without its malformed records.
C20_MalformedRecordSkipped ==
    /\ ppc # "raised"
    /\ coverage = FoldInfo([current_sf |-> "", coverage |-> <<>>, raised |-> FALSE],
                           SelectSeq(info, IsNotMalformedDa), 1).coverage

\* C21: when the report file is missing or cannot be read, parse_lcov_info
\* raises no error and returns the empty index, in which no line of any
\* file has a coverage entry.
C21_MissingReportEmptyIndex ==
    report \in {"missing", "unreadable"} =>
        /\ ppc = "returned"
        /\ coverage = <<>>
        /\ \A f \in Files, l \in 1..MaxCovLine : ~IsExecutable(coverage, f, Some(l))

\* the file of the section that line i of the report stands in, "" if none
SectionOf(lines, i) ==
    LET sfs == {j \in 1..(i - 1) : lines[j].kind = "SF"}
    IN IF sfs = {} THEN ""
       ELSE SfKey(lines[CHOOSE j \in sfs : \A k \in sfs : k <= j].path)

\* C30: the index of a file holds an entry for every line recorded in any
\* section of that file: a later SF section of the same file does not
\* erase the entries of an earlier one.
C30_RepeatedSectionKeepsEntries ==
    \A i \in DOMAIN info :
        (/\ info[i].kind = "DA"
         /\ DaConverts(info[i].parts)
         /\ SectionOf(info, i) # "")
        => /\ SectionOf(info, i) \in DOMAIN coverage
           /\ info[i].parts[1][1] \in DOMAIN coverage[SectionOf(info, i)]

-----------------------------------------------------------------------------
(* measure_test of the openssl pipeline: ITERATIONS perf invocations of    *)
(* one test, each writing its own output file.  The repository holds three *)
(* versions: openssl_pipeline.measure_test, energy.measure_test and        *)
(* common.EnergyHandler.measure_test.                                      *)

\* ITERATIONS = 5
ITERATIONS == 5

MeasureTestVariants == {"openssl_pipeline", "energy", "common"}

\* the versions that `return None` from inside the loop when perf exits
\* non-zero (openssl_pipeline.py:455-460, energy.py:101-107); common.py:259-272
\* falls through to the cool-down and the next iteration
VariantsReturningOnFailure == {"openssl_pipeline", "energy"}

\* the call of measure_test for one test
CallMeasureTest ==
    /\ mpc = "idle"
    /\ mpc' = "loop"
    /\ iter_log' = <<>>
    /\ perf_files' = {}
    /\ UNCHANGED variant
    /\ UNCHANGED <<hunkVars, joinVars, covVars, energyVars, lcovVars, ffVars, batchVars, timeoutVars, statVars,
                   resumeVars>>

\* one iteration of `for iteration in range(ITERATIONS)`: perf runs and may
\* write its output file; on a non-zero exit the file is removed and the
\* function returns or goes on, by version; otherwise it sleeps COOL_DOWN
MeasureIteration ==
    /\ mpc = "loop"
    /\ Len(iter_log) < ITERATIONS
    /\ \E rc \in {0, 1}, wrote \in BOOLEAN :
          LET iteration == Len(iter_log)
              returns == rc # 0 /\ variant \in VariantsReturningOnFailure
          IN /\ rc = 0 => wrote
             /\ perf_files' = IF rc = 0 THEN perf_files \cup {iteration}
                              ELSE perf_files \ {iteration}
             /\ iter_log' = Append(iter_log,
                               [rc |-> rc, wrote |-> wrote, cooled |-> ~returns])
             /\ mpc' = IF returns THEN "returned" ELSE "loop"
    /\ UNCHANGED variant
    /\ UNCHANGED <<hunkVars, joinVars, covVars, energyVars, lcovVars, ffVars, batchVars, timeoutVars, statVars,
                   resumeVars>>

\* the end of the loop: `return None`
MeasureTestReturn ==
    /\ mpc = "loop"
    /\ Len(iter_log) = ITERATIONS
    /\ mpc' = "returned"
    /\ UNCHANGED <<variant, iter_log, perf_files>>
    /\ UNCHANGED <<hunkVars, joinVars, covVars, energyVars, lcovVars, ffVars, batchVars, timeoutVars, statVars,
                   resumeVars>>

IterInit ==
    /\ variant \in MeasureTestVariants
    /\ mpc = "idle"
    /\ iter_log = <<>>
    /\ perf_files = {}
    /\ HunkIdle
    /\ JoinIdle
    /\ CovIdle
    /\ EnergyIdle
    /\ LcovIdle
    /\ FfIdle
    /\ BatchIdle
    /\ TimeoutIdle
    /\ StatIdle
    /\ ResumeIdle

IterNext == CallMeasureTest \/ MeasureIteration \/ MeasureTestReturn

SpecIter == IterInit /\ [][IterNext]_vars

\* C15: when a repetition of a test's energy measurement fails only that
\* repetition's output is discarded and the remaining repetitions are still
\* executed: a finished measure_test has made all ITERATIONS invocations and
\* kept the output of exactly the successful ones.
C15_RemainingRepetitionsRun ==
    mpc = "returned" =>
        /\ Len(iter_log) = ITERATIONS
        /\ perf_files = {i \in 0..(ITERATIONS - 1) : iter_log[i + 1].rc = 0}

(***************************************************************************)
(* SpecFfmpeg: docker/ffmpeg_docker/ffmpeg_pipeline.py, run_phase_2_energy *)
(* for one commit with NumTests todo tests: the perf build, measure_test   *)
(* for each test, the cache, and write_energy_csv.                         *)
(***************************************************************************)

\* TARGET_DURATION_SEC = 3.0, in microseconds
TARGET_DURATION_USEC == 3000000
\* the floor of the dry-run duration: max(time.time() - start, 0.001)
FF_MIN_DURATION_USEC == 1000
\* f"{x:.4f}" keeps four decimals
FOUR_DECIMALS == 10000

\* elapsed dry-run times: 0, 0.0012 s, 0.0015 s, 2 s, 3 s, 4 s
FfElapsed == {0, 1200, 1500, 2000000, 3000000, 4000000}

\* math.ceil(TARGET_DURATION_SEC / duration)
FfIterations(d) == (TARGET_DURATION_USEC + d - 1) \div d

\* the first substring test of the if/elif chain that the event name passes
FfEventKey(event) ==
    CASE event \in {"power/energy-pkg/", "power/energy-pkg"} -> "energy_pkg"
      [] event \in {"power/energy-cores/", "power/energy-cores"} -> "energy_core"
      [] event \in {"cycles", "cpu_core/cycles/", "cpu_atom/cycles/"} -> "cycles"
      [] event \in {"instructions", "cpu_core/instructions/", "cpu_atom/instructions/"}
            -> "instructions"
      [] OTHER -> "none"

\* metrics = {"energy_pkg": 0.0, "energy_core": 0.0, "cycles": 0, "instructions": 0}
FfEmptyMetrics ==
    [energy_pkg |-> Frac(0, 1), energy_core |-> Frac(0, 1),
     cycles |-> Frac(0, 1), instructions |-> Frac(0, 1)]

\* one line of stderr: float(parts[0]) raises on a marker and the line is
\* skipped; a number replaces the value stored under the key of its event
FfParseRow(m, row) ==
    IF row.val = None THEN m
    ELSE CASE FfEventKey(row.event) = "energy_pkg" -> [m EXCEPT !.energy_pkg = Frac(row.val[1], 1)]
           [] FfEventKey(row.event) = "energy_core" -> [m EXCEPT !.energy_core = Frac(row.val[1], 1)]
           [] FfEventKey(row.event) = "cycles" -> [m EXCEPT !.cycles = Frac(row.val[1], 1)]
           [] FfEventKey(row.event) = "instructions" -> [m EXCEPT !.instructions = Frac(row.val[1], 1)]
           [] OTHER -> m

RECURSIVE FfParseRows(_, _, _)
FfParseRows(m, rows, i) ==
    IF i > Len(rows) THEN m ELSE FfParseRows(FfParseRow(m, rows[i]), rows, i + 1)

\* {k: v / iterations for k, v in metrics.items()}
FfPerRun(m, n) ==
    [energy_pkg |-> FracDiv(m.energy_pkg, n), energy_core |-> FracDiv(m.energy_core, n),
     cycles |-> FracDiv(m.cycles, n), instructions |-> FracDiv(m.instructions, n)]

\* what perf can write to stderr
FfPerfOutputs ==
    { <<Row(Some(40), "power/energy-pkg/"), Row(Some(12), "power/energy-cores/"),
        Row(Some(900), "cycles"), Row(Some(1800), "instructions")>>,
      \* energy not supported, cycles not counted
      <<Row(None, "power/energy-pkg/"), Row(None, "power/energy-cores/"),
        Row(None, "cycles"), Row(Some(1800), "instructions")>> }

\* a CSV cell: the number `scaled / scale`, written with the decimals of scale
Cell(scaled, scale) == [scaled |-> scaled, scale |-> scale]

\* format(x, ".4f") and format(x, ".0f"): x * scale rounded to the nearest
\* integer, ties to even
Fmt(x, scale) ==
    LET q == (x.num * scale) \div x.den
        r == (x.num * scale) % x.den
    IN Cell(IF 2 * r > x.den \/ (2 * r = x.den /\ q % 2 = 1) THEN q + 1 ELSE q, scale)

\* `# Default 0`: for k in [...]: out[k] = 0
DefaultCells ==
    [energy_pkg |-> Cell(0, 1), energy_core |-> Cell(0, 1),
     cycles |-> Cell(0, 1), ipc |-> Cell(0, 1)]

\* the cells of one row of write_energy_csv for one side of the pair
CsvCells(entry) ==
    IF entry = None THEN DefaultCells
    ELSE LET m == entry[1]
         IN [energy_pkg |-> Fmt(m.energy_pkg, FOUR_DECIMALS),
             energy_core |-> Fmt(m.energy_core, FOUR_DECIMALS),
             cycles |-> Fmt(m.cycles, 1),
             ipc |-> IF m.cycles.num > 0
                     THEN Fmt(Frac(m.instructions.num * m.cycles.den,
                                   m.instructions.den * m.cycles.num), FOUR_DECIMALS)
                     ELSE Cell(0, 1)]

\* write_energy_csv(output_path, rows, cache)
write_energy_csv(c) == [i \in 1..Len(c) |-> CsvCells(c[i])]

\* run_phase_2_energy: checkout, configure and make; no result is looked at
FfBuildPerf ==
    /\ fpc = "build"
    /\ \E b \in BuildOutcomes : ff_build' = b
    /\ fpc' = IF NumTests = 0 THEN "csv" ELSE "dry"
    /\ UNCHANGED <<ff_test, ff_duration, iterations, cache, energy_csv>>
    /\ UNCHANGED <<hunkVars, joinVars, covVars, energyVars, lcovVars, iterVars, batchVars, timeoutVars, statVars,
                   resumeVars>>

\* the caller's side of a measure_test that returned None or metrics
FfReturn(metrics) ==
    /\ cache' = Append(cache, metrics)
    /\ ff_test' = ff_test + 1
    /\ fpc' = IF ff_test + 1 < NumTests THEN "dry" ELSE "csv"

\* measure_test: the dry run and its timing
FfDryRun ==
    /\ fpc = "dry"
    /\ \E o \in {"ok", "nonzero", "error"}, e \in FfElapsed :
          IF run_cmd(o, TRUE)
          THEN /\ ff_duration' = Max(e, FF_MIN_DURATION_USEC)
               /\ fpc' = "calibrate"
               /\ UNCHANGED <<ff_test, cache>>
          ELSE /\ FfReturn(None)
               /\ UNCHANGED ff_duration
    /\ UNCHANGED <<ff_build, iterations, energy_csv>>
    /\ UNCHANGED <<hunkVars, joinVars, covVars, energyVars, lcovVars, iterVars, batchVars, timeoutVars, statVars,
                   resumeVars>>

\* measure_test: iterations = math.ceil(TARGET_DURATION_SEC / duration)
FfCalibrate ==
    /\ fpc = "calibrate"
    /\ iterations' = FfIterations(ff_duration)
    /\ fpc' = "perf"
    /\ UNCHANGED <<ff_build, ff_test, ff_duration, cache, energy_csv>>
    /\ UNCHANGED <<hunkVars, joinVars, covVars, energyVars, lcovVars, iterVars, batchVars, timeoutVars, statVars,
                   resumeVars>>

\* measure_test: the perf run over the loop, the parse and the division;
\* the caller stores truthy metrics in the cache
FfPerf ==
    /\ fpc = "perf"
    /\ \E rc \in {0, 1}, out \in FfPerfOutputs \cup {<<>>} :
          IF rc # 0 THEN FfReturn(None)
          ELSE IF iterations > 0
               THEN FfReturn(Some(FfPerRun(FfParseRows(FfEmptyMetrics, out, 1), iterations)))
               ELSE FfReturn(None)
    /\ UNCHANGED <<ff_build, ff_duration, iterations, energy_csv>>
    /\ UNCHANGED <<hunkVars, joinVars, covVars, energyVars, lcovVars, iterVars, batchVars, timeoutVars, statVars,
                   resumeVars>>

\* the final write_energy_csv(output_csv_path, rows, cache)
FfWriteCsv ==
    /\ fpc = "csv"
    /\ energy_csv' = write_energy_csv(cache)
    /\ fpc' = "done"
    /\ UNCHANGED <<ff_build, ff_test, ff_duration, iterations, cache>>
    /\ UNCHANGED <<hunkVars, joinVars, covVars, energyVars, lcovVars, iterVars, batchVars, timeoutVars, statVars,
                   resumeVars>>

FfInit ==
    /\ fpc = "build"
    /\ ff_build = "none"
    /\ ff_test = 0
    /\ ff_duration = 0
    /\ iterations = 0
    /\ cache = <<>>
    /\ energy_csv = <<>>
    /\ HunkIdle
    /\ JoinIdle
    /\ CovIdle
    /\ EnergyIdle
    /\ LcovIdle
    /\ IterIdle
    /\ BatchIdle
    /\ TimeoutIdle
    /\ StatIdle
    /\ ResumeIdle

FfNext == FfBuildPerf \/ FfDryRun \/ FfCalibrate \/ FfPerf \/ FfWriteCsv

SpecFfmpeg == FfInit /\ [][FfNext]_vars

\* C18: in every calibration the loop count is an integer from 1 to
\* MAX_LOOPS (2000, the cap of measure_energy_smart), whatever the dry-run
\* duration is
C18_LoopCountWithinMaxLoops ==
    fpc = "perf" => iterations \in 1..LOOP_CAP

(***************************************************************************)
(* SpecBatch: docker/openssl_docker/openssl_pipeline.py, main's loop over  *)
(* the commit pairs and run_phase_1_coverage for each pair.                *)
(***************************************************************************)

\* a test of commit_results['tests']: a failed test has covered_files = [],
\* a test that ran covers a changed file or does not
TestRecords ==
    {[failed |-> TRUE, covers |-> FALSE]}
    \cup {[failed |-> FALSE, covers |-> c] : c \in BOOLEAN}

\* what process_commit can return for a suite of up to NumTests tests
TestFlags == UNION {[1..n -> TestRecords] : n \in 0..NumTests}

\* `not r.get('tests') or all(t.get('failed', True) for t in r['tests'])`
NoSuccessfulTests(flags) == \A i \in DOMAIN flags : flags[i].failed

\* `coverage_results.get('failed', {}).get('status', False)`: the dictionary
\* built at lines 330-346 has the keys project, vuln_commit and fix_commit
\* and no key 'failed', so the guard of extract_test_covering_git_changes
\* (lines 367 and 390) is False and no test gets a 'keep' entry
ExtractIsCalled == FALSE

\* `t.get('keep', True) and not t.get('failed', True)`
IsKept(t) == (IF ExtractIsCalled THEN t.covers ELSE TRUE) /\ ~t.failed

\* kept_tests
KeptTests(flags) == {i \in DOMAIN flags : IsKept(flags[i])}

\* run_phase_1_coverage returned None (every `return None`, and the end of
\* the function, which has no return statement): main prints the skip
\* message and goes on with the next pair
ReturnToMain(how) ==
    /\ pair_log' = Append(pair_log, how)
    /\ bpc' = "main"

\* main: `for i, (vuln, fix) in enumerate(pairs)`
NextPair ==
    /\ bpc = "main"
    /\ IF pair_idx < NumPairs
       THEN /\ pair_idx' = pair_idx + 1
            /\ bpc' = "checkout"
       ELSE /\ bpc' = "done"
            /\ UNCHANGED pair_idx
    /\ UNCHANGED <<which_commit, commit_results, measured, pair_log>>
    /\ UNCHANGED <<hunkVars, joinVars, covVars, energyVars, lcovVars, iterVars, ffVars, timeoutVars, statVars,
                   resumeVars>>

\* run_phase_1_coverage: clean_repo and `git checkout -f {fix}`
CheckoutFix ==
    /\ bpc = "checkout"
    /\ \E o \in {"ok", "nonzero", "error"} :
          IF run_cmd(o, FALSE)
          THEN /\ bpc' = "diff"
               /\ UNCHANGED pair_log
          ELSE ReturnToMain("checkout_failed")
    /\ UNCHANGED <<pair_idx, which_commit, commit_results, measured>>
    /\ UNCHANGED <<hunkVars, joinVars, covVars, energyVars, lcovVars, iterVars, ffVars, timeoutVars, statVars,
                   resumeVars>>

\* run_phase_1_coverage: get_git_diff_files and `if not git_changed_files`
GetGitDiffFiles ==
    /\ bpc = "diff"
    /\ \E changed \in BOOLEAN :
          IF changed
          THEN /\ bpc' = "process"
               /\ which_commit' = "fix"
               /\ UNCHANGED pair_log
          ELSE /\ ReturnToMain("no_diff")
               /\ UNCHANGED which_commit
    /\ UNCHANGED <<pair_idx, commit_results, measured>>
    /\ UNCHANGED <<hunkVars, joinVars, covVars, energyVars, lcovVars, iterVars, ffVars, timeoutVars, statVars,
                   resumeVars>>

\* process_commit(commit): False after a failed configure or build, else
\* the results of the suite
ProcessCommit ==
    /\ bpc = "process"
    /\ \E b \in BuildOutcomes :
          IF b = "ok"
          THEN \E flags \in TestFlags : commit_results' = Some(flags)
          ELSE commit_results' = None
    /\ measured' = {}
    /\ bpc' = "check"
    /\ UNCHANGED <<pair_idx, which_commit, pair_log>>
    /\ UNCHANGED <<hunkVars, joinVars, covVars, energyVars, lcovVars, iterVars, ffVars, timeoutVars, statVars,
                   resumeVars>>

\* `if not coverage_results[...].get('tests') or all(...)`: False has no
\* attribute `get`, so the AttributeError leaves run_phase_1_coverage and
\* main, which has no handler around the call
CheckTests ==
    /\ bpc = "check"
    /\ IF commit_results = None
       THEN /\ bpc' = "raised"
            /\ UNCHANGED pair_log
       ELSE IF NoSuccessfulTests(commit_results[1])
            THEN ReturnToMain("no_successful_tests")
            ELSE /\ bpc' = "measure"
                 /\ UNCHANGED pair_log
    /\ UNCHANGED <<pair_idx, which_commit, commit_results, measured>>
    /\ UNCHANGED <<hunkVars, joinVars, covVars, energyVars, lcovVars, iterVars, ffVars, timeoutVars, statVars,
                   resumeVars>>

\* prepare_for_energy_measurement and measure_test for each kept test; then
\* the vuln commit, or the end of the function
MeasureKeptTests ==
    /\ bpc = "measure"
    /\ measured' = KeptTests(commit_results[1])
    /\ IF which_commit = "fix"
       THEN /\ which_commit' = "vuln"
            /\ bpc' = "process"
            /\ UNCHANGED pair_log
       ELSE /\ ReturnToMain("completed")
            /\ UNCHANGED which_commit
    /\ UNCHANGED <<pair_idx, commit_results>>
    /\ UNCHANGED <<hunkVars, joinVars, covVars, energyVars, lcovVars, iterVars, ffVars, timeoutVars, statVars,
                   resumeVars>>

BatchInit ==
    /\ bpc = "main"
    /\ pair_idx = 0
    /\ which_commit = "fix"
    /\ commit_results = <<>>
    /\ measured = {}
    /\ pair_log = <<>>
    /\ HunkIdle
    /\ JoinIdle
    /\ CovIdle
    /\ EnergyIdle
    /\ LcovIdle
    /\ IterIdle
    /\ FfIdle
    /\ TimeoutIdle
    /\ StatIdle
    /\ ResumeIdle

BatchNext ==
    \/ NextPair
    \/ CheckoutFix
    \/ GetGitDiffFiles
    \/ ProcessCommit
    \/ CheckTests
    \/ MeasureKeptTests

SpecBatch == BatchInit /\ [][BatchNext]_vars

\* C11: a failed checkout, configure, build, test or measurement of one
\* unit never makes the batch loop raise or end early: the loop ends only
\* after every commit pair was processed
C11_BatchNeverAborts ==
    /\ bpc # "raised"
    /\ bpc = "done" => Len(pair_log) = NumPairs

\* C25: energy is measured only for tests selected as relevant: every test
\* handed to measure_test covered at least one file changed by the pair.
C25_OnlyRelevantTestsMeasured ==
    \A i \in measured : commit_results[1][i].covers

-----------------------------------------------------------------------------
(***************************************************************************)
(* SpecTimeout: one call, with a timeout, of a helper that runs an         *)
(* external command: find_cov_energy_perf.run_cmd (subprocess.run),        *)
(* perf_sampling_curl.run_cmd_capture (subprocess.check_output) and        *)
(* perf_sampling_curl.run_cmd_stream (Popen, a read loop, then p.wait).    *)
(* Time is counted in ticks; a tick does not pass while a timeout of the   *)
(* helper is due and not yet handled.                                      *)
(***************************************************************************)

\* the timeout of the call, in ticks
TimeoutTicks == 2
\* the clock stops here
MaxClock == 4

Helpers == {"run_cmd", "run_cmd_capture", "run_cmd_stream"}

\* exit code reported by perf_sampling_curl after a timeout
TIMEOUT_RC == 124

\* run_cmd: lines 57-61 with ignore_errors = False
RunCmdResult(rc) == IF rc # 0 THEN "False" ELSE "True"

\* the decimal text of the exit codes used here
RcText(rc) ==
    CASE rc = 0 -> "0"
      [] rc = 1 -> "1"
      [] rc = TIMEOUT_RC -> "124"

\* what the helper returns for a child that exited with rc
ResultOfExit(h, rc) == IF h = "run_cmd" THEN RunCmdResult(rc) ELSE RcText(rc)

\* what the helper returns from its `except subprocess.TimeoutExpired`
ResultOfTimeout(h) == IF h = "run_cmd" THEN "False" ELSE RcText(TIMEOUT_RC)

\* results that tell the caller the command failed
FailureResults == {"False", "1", "124"}

\* subprocess.run / check_output: communicate(timeout) raises once the
\* timeout has elapsed since the start, whatever the child is doing
CommunicateTimeoutDue ==
    tpc = "communicate" /\ child = "running" /\ clock >= TimeoutTicks

\* run_cmd_stream: p.wait(timeout) raises once the timeout has elapsed since
\* the wait was called
WaitTimeoutDue ==
    tpc = "wait" /\ child = "running" /\ clock - wait_start >= TimeoutTicks

\* the helper starts the child
StartCommand ==
    /\ tpc = "idle"
    /\ child' = "running"
    /\ stdout_open' = TRUE
    /\ clock' = 0
    /\ spawn_count' = spawn_count + 1
    /\ tpc' = IF helper = "run_cmd_stream" THEN "read" ELSE "communicate"
    /\ UNCHANGED <<helper, wait_start, exit_status, cmd_result>>
    /\ UNCHANGED <<hunkVars, joinVars, covVars, energyVars, lcovVars, iterVars, ffVars, batchVars, statVars,
                   resumeVars>>

\* time passes
Tick ==
    /\ tpc \in {"communicate", "read", "wait"}
    /\ clock < MaxClock
    /\ ~CommunicateTimeoutDue
    /\ ~WaitTimeoutDue
    /\ clock' = clock + 1
    /\ UNCHANGED <<helper, tpc, wait_start, child, stdout_open, exit_status, cmd_result,
                   spawn_count>>
    /\ UNCHANGED <<hunkVars, joinVars, covVars, energyVars, lcovVars, iterVars, ffVars, batchVars, statVars,
                   resumeVars>>

\* the child closes its output and goes on running
ChildClosesStdout ==
    /\ child = "running"
    /\ stdout_open
    /\ stdout_open' = FALSE
    /\ UNCHANGED <<helper, tpc, clock, wait_start, child, exit_status, cmd_result, spawn_count>>
    /\ UNCHANGED <<hunkVars, joinVars, covVars, energyVars, lcovVars, iterVars, ffVars, batchVars, statVars,
                   resumeVars>>

\* the child exits by itself
ChildExits ==
    /\ child = "running"
    /\ ~CommunicateTimeoutDue
    /\ ~WaitTimeoutDue
    /\ child' = "exited"
    /\ stdout_open' = FALSE
    /\ \E rc \in {0, 1} : exit_status' = rc
    /\ UNCHANGED <<helper, tpc, clock, wait_start, cmd_result, spawn_count>>
    /\ UNCHANGED <<hunkVars, joinVars, covVars, energyVars, lcovVars, iterVars, ffVars, batchVars, statVars,
                   resumeVars>>

\* subprocess.run / check_output return after the child exited
CommunicateReturns ==
    /\ tpc = "communicate"
    /\ child = "exited"
    /\ cmd_result' = ResultOfExit(helper, exit_status)
    /\ tpc' = "returned"
    /\ UNCHANGED <<helper, clock, wait_start, child, stdout_open, exit_status, spawn_count>>
    /\ UNCHANGED <<hunkVars, joinVars, covVars, energyVars, lcovVars, iterVars, ffVars, batchVars, statVars,
                   resumeVars>>

\* subprocess.run / check_output kill the child on TimeoutExpired and the
\* helper's handler returns
CommunicateTimesOut ==
    /\ CommunicateTimeoutDue
    /\ child' = "killed"
    /\ stdout_open' = FALSE
    /\ cmd_result' = ResultOfTimeout(helper)
    /\ tpc' = "returned"
    /\ UNCHANGED <<helper, clock, wait_start, exit_status, spawn_count>>
    /\ UNCHANGED <<hunkVars, joinVars, covVars, energyVars, lcovVars, iterVars, ffVars, batchVars, statVars,
                   resumeVars>>

\* run_cmd_stream: `for line in p.stdout` ends when the child's output is
\* closed, and only then p.wait(timeout=timeout) is called
ReadLoopEnds ==
    /\ tpc = "read"
    /\ ~stdout_open
    /\ tpc' = "wait"
    /\ wait_start' = clock
    /\ UNCHANGED <<helper, clock, child, stdout_open, exit_status, cmd_result, spawn_count>>
    /\ UNCHANGED <<hunkVars, joinVars, covVars, energyVars, lcovVars, iterVars, ffVars, batchVars, statVars,
                   resumeVars>>

\* run_cmd_stream: p.wait returns the exit code
WaitReturns ==
    /\ tpc = "wait"
    /\ child = "exited"
    /\ cmd_result' = ResultOfExit(helper, exit_status)
    /\ tpc' = "returned"
    /\ UNCHANGED <<helper, clock, wait_start, child, stdout_open, exit_status, spawn_count>>
    /\ UNCHANGED <<hunkVars, joinVars, covVars, energyVars, lcovVars, iterVars, ffVars, batchVars, statVars,
                   resumeVars>>

\* run_cmd_stream: `except subprocess.TimeoutExpired: p.kill(); return 124`
WaitTimesOut ==
    /\ WaitTimeoutDue
    /\ child' = "killed"
    /\ cmd_result' = ResultOfTimeout(helper)
    /\ tpc' = "returned"
    /\ UNCHANGED <<helper, clock, wait_start, stdout_open, exit_status, spawn_count>>
    /\ UNCHANGED <<hunkVars, joinVars, covVars, energyVars, lcovVars, iterVars, ffVars, batchVars, statVars,
                   resumeVars>>

TimeoutInit ==
    /\ helper \in Helpers
    /\ tpc = "idle"
    /\ clock = 0
    /\ wait_start = 0
    /\ child = "none"
    /\ stdout_open = FALSE
    /\ exit_status = 0
    /\ cmd_result = ""
    /\ spawn_count = 0
    /\ HunkIdle
    /\ JoinIdle
    /\ CovIdle
    /\ EnergyIdle
    /\ LcovIdle
    /\ IterIdle
    /\ FfIdle
    /\ BatchIdle
    /\ StatIdle
    /\ ResumeIdle

TimeoutNext ==
    \/ StartCommand
    \/ Tick
    \/ ChildClosesStdout
    \/ ChildExits
    \/ CommunicateReturns
    \/ CommunicateTimesOut
    \/ ReadLoopEnds
    \/ WaitReturns
    \/ WaitTimesOut

SpecTimeout == TimeoutInit /\ [][TimeoutNext]_vars

\* C22: a child that is still running when the timeout has elapsed is
\* terminated (no later moment finds it running), the call is then reported
\* as a failure, and the command is not started again; also while the child
\* is still writing or keeps its output open.
C22_TimeoutTerminatesChild ==
    /\ clock > TimeoutTicks => child # "running"
    /\ (tpc = "returned" /\ child = "killed") => cmd_result \in FailureResults
    /\ spawn_count <= 1

-----------------------------------------------------------------------------
(***************************************************************************)
(* SpecStat: perf_sampling_curl.main, the energy phase: perf stat around   *)
(* `make test`, parse_perf_stat_energy over the captured output, and the   *)
(* energy CSV.  A line of the output is                                    *)
(*   "energy"  `<number> Joules power/energy-<domain>/` (energy_re)        *)
(*   "time"    `<number> seconds time elapsed` (time_re)                   *)
(*   "other"   a line that neither expression matches                      *)
(* where <number> is any text of digits, dots and commas.                  *)
(***************************************************************************)

\* largest number of output lines
MaxStatLines == 2

StatLine(k, domain, text) == [kind |-> k, domain |-> domain, text |-> text]

\* float(raw_val.replace(",", "")), in hundredths: None when float() raises
\* ValueError (more than one dot is left)
FloatOfText(text) ==
    CASE text = "2,306.32" -> Some(230632)
      [] text = "41.50" -> Some(4150)
      [] text = "277.95" -> Some(27795)
      [] text = "1.234.567,89" -> None

StatLines ==
    {StatLine("energy", "pkg", "2,306.32"), StatLine("energy", "cores", "41.50"),
     \* a locale that groups digits with dots
     StatLine("energy", "pkg", "1.234.567,89"),
     StatLine("time", "", "277.95"), StatLine("other", "", "")}

StatOutputs == UNION {[1..n -> StatLines] : n \in 0..MaxStatLines}

\* f"energy-{domain}-j" and "time-elapsed-s"
MetricKey(line) ==
    IF line.kind = "time" THEN "time-elapsed-s"
    ELSE IF line.domain = "pkg" THEN "energy-pkg-j" ELSE "energy-cores-j"

\* energy_metrics.get(key, "")
MetricOrEmpty(metrics, key) ==
    IF key \in DOMAIN metrics THEN Some(metrics[key]) ELSE None

\* the energy phase starts: run_cmd_capture(perf_stat_cmd) returns the exit
\* code and the output
RunPerfStat ==
    /\ spc = "stat"
    /\ \E rc \in {0, 2}, out \in StatOutputs :
          /\ perf_stat_exit_code' = rc
          /\ stat_out' = out
    /\ spc' = "parse"
    /\ UNCHANGED <<stat_idx, energy_metrics, energy_row>>
    /\ UNCHANGED <<hunkVars, joinVars, covVars, energyVars, lcovVars, iterVars, ffVars,
                   batchVars, timeoutVars,
                   resumeVars>>

\* parse_perf_stat_energy: one iteration of `for line in stat_output.splitlines()`;
\* a ValueError of float() has no handler in the function or in main
ParseStatLine ==
    /\ spc = "parse"
    /\ stat_idx < Len(stat_out)
    /\ LET line == stat_out[stat_idx + 1]
       IN IF line.kind = "other"
          THEN UNCHANGED <<spc, energy_metrics>>
          ELSE IF FloatOfText(line.text) = None
               THEN /\ spc' = "raised"
                    /\ UNCHANGED energy_metrics
               ELSE /\ energy_metrics' =
                          (MetricKey(line) :> FloatOfText(line.text)[1]) @@ energy_metrics
                    /\ UNCHANGED spc
    /\ stat_idx' = stat_idx + 1
    /\ UNCHANGED <<perf_stat_exit_code, stat_out, energy_row>>
    /\ UNCHANGED <<hunkVars, joinVars, covVars, energyVars, lcovVars, iterVars, ffVars,
                   batchVars, timeoutVars,
                   resumeVars>>

\* main: the test on rc and on what was parsed, `return 4`, or the energy CSV
WriteEnergyCsv ==
    /\ spc = "parse"
    /\ stat_idx = Len(stat_out)
    /\ LET parsed_any_energy ==
               \E k \in DOMAIN energy_metrics : k \in {"energy-pkg-j", "energy-cores-j"}
           parsed_any_time == "time-elapsed-s" \in DOMAIN energy_metrics
       IN IF perf_stat_exit_code # 0 /\ ~(parsed_any_energy \/ parsed_any_time)
          THEN /\ spc' = "aborted"
               /\ UNCHANGED energy_row
          ELSE /\ spc' = "written"
               /\ energy_row' =
                     Some([test_exit_code |-> perf_stat_exit_code,
                           test_status |-> IF perf_stat_exit_code = 0 THEN "OK" ELSE "FAILED",
                           time_elapsed_s |-> MetricOrEmpty(energy_metrics, "time-elapsed-s"),
                           energy_pkg_j |-> MetricOrEmpty(energy_metrics, "energy-pkg-j"),
                           energy_cores_j |-> MetricOrEmpty(energy_metrics, "energy-cores-j")])
    /\ UNCHANGED <<perf_stat_exit_code, stat_out, stat_idx, energy_metrics>>
    /\ UNCHANGED <<hunkVars, joinVars, covVars, energyVars, lcovVars, iterVars, ffVars,
                   batchVars, timeoutVars,
                   resumeVars>>

StatInit ==
    /\ spc = "stat"
    /\ perf_stat_exit_code = 0
    /\ stat_out = <<>>
    /\ stat_idx = 0
    /\ energy_metrics = <<>>
    /\ energy_row = <<>>
    /\ HunkIdle
    /\ JoinIdle
    /\ CovIdle
    /\ EnergyIdle
    /\ LcovIdle
    /\ IterIdle
    /\ FfIdle
    /\ BatchIdle
    /\ TimeoutIdle
    /\ ResumeIdle

StatNext == RunPerfStat \/ ParseStatLine \/ WriteEnergyCsv

SpecStat == StatInit /\ [][StatNext]_vars

\* the lines of the output that report the metric `key`
LinesOf(out, key) ==
    {i \in DOMAIN out : out[i].kind # "other" /\ MetricKey(out[i]) = key}

\* the value the output reports for `key`: the one of its last line, None
\* when no line reports it
Reported(out, key) ==
    IF LinesOf(out, key) = {} THEN None
    ELSE FloatOfText(out[CHOOSE i \in LinesOf(out, key) :
                             \A j \in LinesOf(out, key) : j <= i].text)

StatKeys == {"time-elapsed-s", "energy-pkg-j", "energy-cores-j"}

\* the output holds an energy or time value
HasParsableValue(out) == \E key \in StatKeys : Reported(out, key) # None

\* C24: when the energy phase has ended, (a) after a non-zero exit of the
\* wrapped `make test` with an energy or time value in the perf stat output,
\* the energy CSV holds the parsed values together with test_exit_code and
\* test_status = FAILED; (b) there is no energy CSV only when the exit code
\* is non-zero and the output holds no parsable energy or time value.
C24_EnergySavedOnFailedTest ==
    spc \in {"written", "aborted", "raised"} =>
        /\ (perf_stat_exit_code # 0 /\ HasParsableValue(stat_out)) =>
              /\ energy_row # None
              /\ energy_row[1].test_exit_code = perf_stat_exit_code
              /\ energy_row[1].test_status = "FAILED"
              /\ energy_row[1].time_elapsed_s = Reported(stat_out, "time-elapsed-s")
              /\ energy_row[1].energy_pkg_j = Reported(stat_out, "energy-pkg-j")
              /\ energy_row[1].energy_cores_j = Reported(stat_out, "energy-cores-j")
        /\ energy_row = None =>
              (perf_stat_exit_code # 0 /\ ~HasParsableValue(stat_out))

\* ---------------------------------------------------------------------------
\* Checkpoints and re-runs: run_vuln_phase of vuln_fix_testCompile.py, and
\* main, run_phase_1_coverage (vuln part) and run_phase_2_energy of
\* ffmpeg_pipeline.py.  A run may be stopped at any point between two steps
\* and the pipeline started again; the checkpoint files stay on disk.
\* ---------------------------------------------------------------------------

\* how many times the pipeline is started
MaxRuns == 2

\* the program whose run is followed
EntryPoints == {"vuln_fix_testCompile", "ffmpeg_phase_1", "ffmpeg_phase_2"}

VulnCommits == {"v1", "v2"}
FixCommits == {"f0", "f1", "f2"}

\* rows (vuln_commit, fix_commit) the input CSV can hold; two fixes share the
\* vuln commit v1
CommitPairs == {<<"v1", "f1">>, <<"v1", "f2">>, <<"v2", "f2">>, <<"v2", "f0">>}

\* `pairs` of ffmpeg main: at least one row, else sys.exit(1)
InputCsvs == UNION {[1..n -> CommitPairs] : n \in 1..NumPairs}

\* get_git_diff_files(PROJECT_DIR, fix_commit): the files changed by the fix
DiffFilesOf(fix) ==
    CASE fix = "f1" -> {"a.c"}
      [] fix = "f2" -> {"b.c"}
      [] OTHER -> {}

\* p1_cache: ckpt_cov_{vuln[:8]}.json, and VULN_CHECKPOINT:
\* checkpoint_{VULN_COMMIT[:8]}.json; the file is named by the vuln commit
p1_cache(vuln, fix) == vuln

\* load_json / load_checkpoint of a file that does not exist returns {}:
\* .get("status") is None and .get("results", {}) is {}
EmptyCheckpoint == [status |-> "NONE", results |-> <<>>]

\* the (commit, test) units
Units == (VulnCommits \cup FixCommits) \X (1..NumTests)

\* commit of position i in `tasks` for the pair: vuln_commit, then fix_commit
TaskCommit(i) == input_pairs[pair_no][i]

\* for i, (vuln, fix) in enumerate(pairs), and main of vuln_fix_testCompile,
\* which handles the one pair VULN_COMMIT, FIX_COMMIT
MainNextPair ==
    /\ rpc = "main"
    /\ IF pair_no < Len(input_pairs)
          THEN /\ pair_no' = pair_no + 1
               /\ rpc' = IF entry_point = "ffmpeg_phase_2" THEN "phase2"
                                                          ELSE "phase1"
          ELSE /\ rpc' = "exited"
               /\ UNCHANGED pair_no
    /\ cached_data' = EmptyCheckpoint
    /\ loaded_from' = None
    /\ vuln_results' = <<>>
    /\ UNCHANGED <<entry_point, run_no, input_pairs, vuln_cov, tasks,
                   checkpoints, ckpt_pair, eng_checkpoint, p1_rows, eng_cache,
                   commit_no, todos, test_no, exec_count>>
    /\ UNCHANGED <<hunkVars, joinVars, covVars, energyVars, lcovVars, iterVars,
                   ffVars, batchVars, timeoutVars, statVars>>

\* target_files; `if not target_files: return False`; cached_data =
\* load_json(checkpoint_path); vuln_results = cached_data.get("results", {});
\* `if cached_data.get("status") != "COMPLETE"`
LoadCheckpoint ==
    /\ rpc = "phase1"
    /\ LET vuln == input_pairs[pair_no][1]
           fix == input_pairs[pair_no][2]
           data == checkpoints[p1_cache(vuln, fix)]
       IN  IF DiffFilesOf(fix) = {}
              THEN /\ rpc' = "main"
                   /\ UNCHANGED <<cached_data, loaded_from, vuln_results>>
              ELSE /\ cached_data' = data
                   /\ loaded_from' = ckpt_pair[p1_cache(vuln, fix)]
                   /\ vuln_results' = data.results
                   /\ rpc' = IF data.status = "COMPLETE" THEN "fix"
                                                         ELSE "build"
    /\ UNCHANGED <<entry_point, run_no, input_pairs, vuln_cov, tasks, pair_no,
                   checkpoints, ckpt_pair, eng_checkpoint, p1_rows, eng_cache,
                   commit_no, todos, test_no, exec_count>>
    /\ UNCHANGED <<hunkVars, joinVars, covVars, energyVars, lcovVars, iterVars,
                   ffVars, batchVars, timeoutVars, statVars>>

\* checkout, configure and make of the vuln commit: run_vuln_phase returns
\* None when checkout or make fails, run_phase_1_coverage ignores the results
BuildVuln ==
    /\ rpc = "build"
    /\ \E ok \in BOOLEAN :
          /\ entry_point = "ffmpeg_phase_1" => ok
          /\ IF ok THEN /\ rpc' = "loop"
                        /\ test_no' = 1
                   ELSE /\ rpc' = "main"
                        /\ UNCHANGED test_no
    /\ UNCHANGED <<entry_point, run_no, input_pairs, vuln_cov, tasks, pair_no,
                   checkpoints, ckpt_pair, eng_checkpoint, cached_data,
                   loaded_from, vuln_results, p1_rows, eng_cache, commit_no,
                   todos, exec_count>>
    /\ UNCHANGED <<hunkVars, joinVars, covVars, energyVars, lcovVars, iterVars,
                   ffVars, batchVars, timeoutVars, statVars>>

\* one pass of `for i, test in enumerate(suite)`: `if t_name in vuln_results:
\* continue`; the test is run; relevant = [f for f in covered if f in
\* target_files]; `if relevant:` the test is stored and the checkpoint saved
\* with status IN_PROGRESS
RunVulnTest ==
    /\ rpc = "loop"
    /\ test_no <= NumTests
    /\ LET vuln == input_pairs[pair_no][1]
           fix == input_pairs[pair_no][2]
           relevant == vuln_cov[test_no] \cap DiffFilesOf(fix)
           stored == vuln_results @@ (test_no :> relevant)
       IN  IF test_no \in DOMAIN vuln_results
              THEN UNCHANGED <<vuln_results, checkpoints, ckpt_pair, exec_count>>
              ELSE /\ exec_count' =
                          [exec_count EXCEPT ![<<vuln, test_no>>] = @ + 1]
                   /\ IF relevant # {}
                         THEN /\ vuln_results' = stored
                              /\ checkpoints' =
                                    [checkpoints EXCEPT ![p1_cache(vuln, fix)] =
                                        [status |-> "IN_PROGRESS",
                                         results |-> stored]]
                              /\ ckpt_pair' =
                                    [ckpt_pair EXCEPT ![p1_cache(vuln, fix)] =
                                        Some(input_pairs[pair_no])]
                         ELSE UNCHANGED <<vuln_results, checkpoints, ckpt_pair>>
    /\ test_no' = test_no + 1
    /\ UNCHANGED <<entry_point, run_no, input_pairs, vuln_cov, tasks, pair_no,
                   eng_checkpoint, cached_data, loaded_from, p1_rows, eng_cache,
                   commit_no, todos, rpc>>
    /\ UNCHANGED <<hunkVars, joinVars, covVars, energyVars, lcovVars, iterVars,
                   ffVars, batchVars, timeoutVars, statVars>>

\* after the loop: save {"status": "COMPLETE", "results": vuln_results}
MarkComplete ==
    /\ rpc = "loop"
    /\ test_no > NumTests
    /\ LET vuln == input_pairs[pair_no][1]
           fix == input_pairs[pair_no][2]
       IN  /\ checkpoints' = [checkpoints EXCEPT ![p1_cache(vuln, fix)] =
                                 [status |-> "COMPLETE",
                                  results |-> vuln_results]]
           /\ ckpt_pair' = [ckpt_pair EXCEPT ![p1_cache(vuln, fix)] =
                               Some(input_pairs[pair_no])]
    /\ rpc' = "fix"
    /\ UNCHANGED <<entry_point, run_no, input_pairs, vuln_cov, tasks, pair_no,
                   eng_checkpoint, cached_data, loaded_from, vuln_results,
                   p1_rows, eng_cache, commit_no, todos, test_no, exec_count>>
    /\ UNCHANGED <<hunkVars, joinVars, covVars, energyVars, lcovVars, iterVars,
                   ffVars, batchVars, timeoutVars, statVars>>

\* the fix part: the fix commit is built and its suite run (it has no
\* checkpoint); a row names the test in v_testname for a target when
\* `(t_name in vuln_results) and (target in vuln_results[t_name])`
RunFixPhase ==
    /\ rpc = "fix"
    /\ p1_rows' = {r \in (DOMAIN vuln_results)
                          \X DiffFilesOf(input_pairs[pair_no][2]) :
                      r[2] \in vuln_results[r[1]]}
    /\ rpc' = "main"
    /\ UNCHANGED <<entry_point, run_no, input_pairs, vuln_cov, tasks, pair_no,
                   checkpoints, ckpt_pair, eng_checkpoint, cached_data,
                   loaded_from, vuln_results, eng_cache, commit_no, todos,
                   test_no, exec_count>>
    /\ UNCHANGED <<hunkVars, joinVars, covVars, energyVars, lcovVars, iterVars,
                   ffVars, batchVars, timeoutVars, statVars>>

\* run_phase_2_energy: cache = load_json(checkpoint_path)
LoadEnergyCache ==
    /\ rpc = "phase2"
    /\ eng_cache' = eng_checkpoint
    /\ commit_no' = 0
    /\ rpc' = "commits"
    /\ UNCHANGED <<entry_point, run_no, input_pairs, vuln_cov, tasks, pair_no,
                   checkpoints, ckpt_pair, eng_checkpoint, cached_data,
                   loaded_from, vuln_results, p1_rows, todos, test_no,
                   exec_count>>
    /\ UNCHANGED <<hunkVars, joinVars, covVars, energyVars, lcovVars, iterVars,
                   ffVars, batchVars, timeoutVars, statVars>>

\* `for commit, test_set in tasks.items()`: todos = [t for t in test_set if t
\* not in cache[commit]]; `if not todos: continue`; after the last commit
\* write_energy_csv and return True
NextCommit ==
    /\ rpc = "commits"
    /\ IF commit_no < 2
          THEN LET left == tasks[commit_no + 1] \ eng_cache[commit_no + 1]
               IN  /\ commit_no' = commit_no + 1
                   /\ todos' = left
                   /\ rpc' = IF left = {} THEN "commits" ELSE "build_perf"
          ELSE /\ rpc' = "main"
               /\ UNCHANGED <<commit_no, todos>>
    /\ UNCHANGED <<entry_point, run_no, input_pairs, vuln_cov, tasks, pair_no,
                   checkpoints, ckpt_pair, eng_checkpoint, cached_data,
                   loaded_from, vuln_results, p1_rows, eng_cache, test_no,
                   exec_count>>
    /\ UNCHANGED <<hunkVars, joinVars, covVars, energyVars, lcovVars, iterVars,
                   ffVars, batchVars, timeoutVars, statVars>>

\* checkout, configure and make of the commit without coverage
BuildForPerf ==
    /\ rpc = "build_perf"
    /\ rpc' = "measure"
    /\ UNCHANGED <<entry_point, run_no, input_pairs, vuln_cov, tasks, pair_no,
                   checkpoints, ckpt_pair, eng_checkpoint, cached_data,
                   loaded_from, vuln_results, p1_rows, eng_cache, commit_no,
                   todos, test_no, exec_count>>
    /\ UNCHANGED <<hunkVars, joinVars, covVars, energyVars, lcovVars, iterVars,
                   ffVars, batchVars, timeoutVars, statVars>>

\* one pass of `for i, test in enumerate(todos)`: metrics =
\* measure_test(...), which is None when the dry run or perf fails;
\* `if metrics:` the test is stored and the cache saved
MeasureTodo ==
    /\ rpc = "measure"
    /\ IF todos = {}
          THEN /\ rpc' = "commits"
               /\ UNCHANGED <<todos, eng_cache, eng_checkpoint, exec_count>>
          ELSE \E t \in todos, got_metrics \in BOOLEAN :
                  LET stored == [eng_cache EXCEPT ![commit_no] = @ \cup {t}]
                  IN  /\ exec_count' =
                             [exec_count EXCEPT ![<<TaskCommit(commit_no), t>>] =
                                 @ + 1]
                      /\ IF got_metrics
                            THEN /\ eng_cache' = stored
                                 /\ eng_checkpoint' = stored
                            ELSE UNCHANGED <<eng_cache, eng_checkpoint>>
                      /\ todos' = todos \ {t}
                      /\ UNCHANGED rpc
    /\ UNCHANGED <<entry_point, run_no, input_pairs, vuln_cov, tasks, pair_no,
                   checkpoints, ckpt_pair, cached_data, loaded_from,
                   vuln_results, p1_rows, commit_no, test_no>>
    /\ UNCHANGED <<hunkVars, joinVars, covVars, energyVars, lcovVars, iterVars,
                   ffVars, batchVars, timeoutVars, statVars>>

\* the process ends or is stopped (between two steps) and the pipeline is
\* started again on the same input: the files stay, the locals are lost
Rerun ==
    /\ rpc # "idle"
    /\ run_no < MaxRuns
    /\ run_no' = run_no + 1
    /\ rpc' = "main"
    /\ pair_no' = 0
    /\ cached_data' = EmptyCheckpoint
    /\ loaded_from' = None
    /\ vuln_results' = <<>>
    /\ eng_cache' = [i \in 1..2 |-> {}]
    /\ commit_no' = 0
    /\ todos' = {}
    /\ test_no' = 0
    /\ UNCHANGED <<entry_point, input_pairs, vuln_cov, tasks, checkpoints,
                   ckpt_pair, eng_checkpoint, p1_rows, exec_count>>
    /\ UNCHANGED <<hunkVars, joinVars, covVars, energyVars, lcovVars, iterVars,
                   ffVars, batchVars, timeoutVars, statVars>>

ResumeInit ==
    /\ HunkIdle
    /\ JoinIdle
    /\ CovIdle
    /\ EnergyIdle
    /\ LcovIdle
    /\ IterIdle
    /\ FfIdle
    /\ BatchIdle
    /\ TimeoutIdle
    /\ StatIdle
    /\ entry_point \in EntryPoints
    /\ input_pairs \in IF entry_point = "ffmpeg_phase_1"
                          THEN InputCsvs
                          ELSE {<<p>> : p \in {q \in CommitPairs :
                                                  DiffFilesOf(q[2]) # {}}}
    /\ vuln_cov \in IF entry_point = "ffmpeg_phase_2"
                       THEN {[t \in 1..NumTests |-> {}]}
                       ELSE [1..NumTests -> SUBSET Files]
    /\ tasks \in IF entry_point = "ffmpeg_phase_2"
                    THEN [1..2 -> SUBSET (1..NumTests)]
                    ELSE {[i \in 1..2 |-> {}]}
    /\ rpc = "main"
    /\ run_no = 1
    /\ pair_no = 0
    /\ checkpoints = [c \in VulnCommits |-> EmptyCheckpoint]
    /\ ckpt_pair = [c \in VulnCommits |-> None]
    /\ eng_checkpoint = [i \in 1..2 |-> {}]
    /\ cached_data = EmptyCheckpoint
    /\ loaded_from = None
    /\ vuln_results = <<>>
    /\ p1_rows = {}
    /\ eng_cache = [i \in 1..2 |-> {}]
    /\ commit_no = 0
    /\ todos = {}
    /\ test_no = 0
    /\ exec_count = [u \in Units |-> 0]

ResumeNext ==
    \/ MainNextPair
    \/ LoadCheckpoint
    \/ BuildVuln
    \/ RunVulnTest
    \/ MarkComplete
    \/ RunFixPhase
    \/ LoadEnergyCache
    \/ NextCommit
    \/ BuildForPerf
    \/ MeasureTodo
    \/ Rerun

SpecResume == ResumeInit /\ [][ResumeNext]_vars

\* C26: a re-run with an existing checkpoint skips every (commit, test) unit
\* that was already executed, whatever its outcome, so no unit is executed
\* twice; and a vuln phase whose checkpoint says COMPLETE runs no build and
\* no test.
C26_TerminalUnitsSkippedOnRerun ==
    /\ \A u \in Units : exec_count[u] <= 1
    /\ cached_data.status = "COMPLETE" => rpc \notin {"build", "loop"}

\* C29: the coverage checkpoint loaded for a pair was written while that same
\* pair was processed.
C29_CheckpointOfSamePair ==
    loaded_from # None => loaded_from = Some(input_pairs[pair_no])

====
